---- MODULE Spec2Model ----
(***************************************************************************)
(* goldengate: the WSGI request pipeline (goldengate/__init__.py), the     *)
(* rule library it compiles (goldengate/rules), and the time-lock policy   *)
(* (goldengate/policy.py), as state machines.                              *)
(***************************************************************************)
EXTENDS Bags, FiniteSets, Integers, Sequences, TLC

VARIABLES
    rules,      \* Application.rules: the compiled rulesets, in declaration order
    pc,         \* position of the request inside Application.__call__
    idx,        \* index of the ruleset the for-loop is at
    environ,    \* the request as it arrived
    request,    \* the webob request object (mutated by modify rules and the proxy)
    response,   \* the local variable `response` of __call__ (NoResponse = None)
    calls,      \* history: the stages invoked so far, as <<stage, ruleset index>>
    selected,   \* history: index of the ruleset whose match stage accepted (0 = none)
    decision,   \* history: what the filter stage of the selected ruleset decided
    raised,     \* history: the stage in which an exception was raised ("" = none)
    sent,       \* what proxy_request sent upstream (NoneSent = nothing)
    store,      \* the TimeLock table of the key-value store: id -> record
    gpc,        \* position of each TimeLockPolicy.grant call
    gid,        \* request_uuid of each grant call
    gresult,    \* what each grant call returned
    cpc,        \* position of each TimeLockPolicy.cancel call
    cid,        \* request_uuid argument of each cancel call
    clocal,     \* the TimeLock object each cancel call holds (local variable `request`)
    outbox,     \* ids sent to the notification broker
    bpc,        \* position of each BooleanPolicy.grant call
    op,         \* the function being called on its own ("" = none)
    args,       \* its arguments
    ret         \* what it returned or raised (NotCalled = still to be called)

pipevars == <<rules, pc, idx, environ, request, response, calls, selected,
              decision, raised, sent>>

lockvars == <<store, gpc, gid, gresult, cpc, cid, clocal, outbox, bpc>>

callvars == <<op, args, ret>>

vars == <<pipevars, lockvars, callvars>>

----------------------------------------------------------------------------
(* Bounds of the model *)

\* longest list of rulesets in a configuration
MaxRulesets == 2
\* the value time.time() returns while the request is filtered
Now == 1000

\* concurrent TimeLockPolicy.grant calls, TimeLockPolicy.cancel calls,
\* requests under a BooleanPolicy, and the uuids uuid4 can draw
MaxGrants == 2
MaxCancels == 2
MaxOthers == 1
MaxUuids == 2

(* Program constants *)
MaxSignatureAge == 300

----------------------------------------------------------------------------
(* Python values *)

\* a call that returned v / a call that raised exception class e
Ok(v) == [exc |-> "", val |-> v]
Raise(e) == [exc |-> e, val |-> FALSE]

\* d[k] = v and del d[k] on a dict
Put(d, k, v) == [x \in (DOMAIN d) \cup {k} |-> IF x = k THEN v ELSE d[x]]
Del(d, k) == [x \in (DOMAIN d) \ {k} |-> d[x]]
EmptyDict == [x \in {} |-> ""]

\* the exception classes raised by the rules, the engine and the proxy;
\* all of them derive from Exception
ExceptionClasses ==
    {"RuleException", "KeyError", "ValueError", "IOError", "UnboundLocalError"}

----------------------------------------------------------------------------
(* Responses *)

NoResponse == [status |-> 0, body |-> "", headers |-> EmptyDict]
Response403 == [status |-> 403, body |-> "Verboten\n", headers |-> EmptyDict]
Response500 == [status |-> 500, body |-> "Internal Server Error", headers |-> EmptyDict]
Response501 == [status |-> 501, body |-> "This shouldn't happen.\n", headers |-> EmptyDict]

\* what the upstream server may answer
UpstreamResponses ==
    { [status |-> 200, body |-> "upstream-ok", headers |-> [h \in {"Server"} |-> "aws"]],
      [status |-> 404, body |-> "upstream-nf", headers |-> EmptyDict] }

\* a URL as urlparse splits it
NoUrl == [scheme |-> "", netloc |-> "", path |-> ""]
GatewayUrl == [scheme |-> "http", netloc |-> "goldengate.example.com", path |-> "/foo/bar"]
UpstreamUrl == [scheme |-> "https", netloc |-> "iam.amazonaws.com", path |-> "/"]

NoneSent == [method |-> "", url |-> NoUrl, body |-> "", headers |-> EmptyDict]

\* conn.request or conn.getresponse raising socket.error
ConnectionFailed == [status |-> 0 - 1, body |-> "", headers |-> EmptyDict]

UpstreamOutcomes == UpstreamResponses \cup {ConnectionFailed}

----------------------------------------------------------------------------
(* Match and filter rules: goldengate/rules/match.py, filter.py *)

\* IPy.IP(value): the octets of a dotted quad, <<>> when IP() raises ValueError
ParseIP(s) ==
    CASE s = "127.0.0.1" -> <<127, 0, 0, 1>>
      [] s = "10.1.2.3" -> <<10, 1, 2, 3>>
      [] OTHER -> <<>>

\* IPy.IP(subnet) of a CIDR block
ParseCIDR(s) ==
    CASE s = "127.0.0.0/8" -> [addr |-> <<127, 0, 0, 0>>, prefixlen |-> 8]
      [] s = "10.1.0.0/16" -> [addr |-> <<10, 1, 0, 0>>, prefixlen |-> 16]
      [] OTHER -> [addr |-> <<0, 0, 0, 0>>, prefixlen |-> 32]

\* value in IP(subnet), for prefixes that are whole octets
InSubnet(a, net) == \A i \in 1..(net.prefixlen \div 8) : a[i] = net.addr[i]

\* re.match(pattern, value) for the patterns and values of the model
RegexMatch(pattern, value) ==
    CASE pattern = "^curl" -> value \in {"curl/7.19.7"}
      [] pattern = "^/foo" -> value \in {"/foo/bar"}
      [] OTHER -> FALSE

\* match_regex: every turn of the loop matches self.params[0]
match_regex(rule, value) ==
    Ok(\E i \in DOMAIN rule.params : RegexMatch(rule.params[1], value))

match_is(rule, value) == Ok(value = rule.params[1])

match_in(rule, value) == Ok(\E i \in DOMAIN rule.params : value = rule.params[i])

match_subnet(rule, value) ==
    IF ParseIP(value) = <<>>
    THEN Raise("ValueError")
    ELSE Ok(\E i \in DOMAIN rule.params :
                InSubnet(ParseIP(value), ParseCIDR(rule.params[i])))

\* self.matchfunc, bound in __init__ to match_<matchtype>
matchfunc(rule, value) ==
    CASE rule.matchtype = "is" -> match_is(rule, value)
      [] rule.matchtype = "regex" -> match_regex(rule, value)
      [] rule.matchtype = "in" -> match_in(rule, value)
      [] rule.matchtype = "subnet" -> match_subnet(rule, value)

AllMatchRule(rule, req) == Ok(TRUE)

NoneMatchRule(rule, req) == Ok(FALSE)

\* value = getattr(request, self.verb); return self.matchfunc(value)
RequestMatchRule(rule, req) == matchfunc(rule, req[rule.verb])

\* value = request.headers.get(self.key); absent or empty => False
HeaderMatchRule(rule, req) ==
    IF rule.key \notin DOMAIN req.headers \/ req.headers[rule.key] = ""
    THEN Ok(FALSE)
    ELSE matchfunc(rule, req.headers[rule.key])

----------------------------------------------------------------------------
(* AWS signature filter: goldengate/rules/aws.py *)

\* parse_timestamp: a Timestamp parameter is [iso, secs]: iso says whether
\* the string has the form TIME_FORMAT, secs the instant it then denotes
parse_timestamp(ts) == IF ts.iso THEN Ok(ts.secs) ELSE Raise("ValueError")

\* str.lower(): every ASCII capital becomes its small letter, every other
\* character stays
UpperCase == "ABCDEFGHIJKLMNOPQRSTUVWXYZ"
LowerCase == "abcdefghijklmnopqrstuvwxyz"
LowerChar(c) ==
    LET hits == {i \in 1..Len(UpperCase) : SubSeq(UpperCase, i, i) = c}
    IN  IF hits = {} THEN c
        ELSE LET i == CHOOSE i \in hits : TRUE IN SubSeq(LowerCase, i, i)
RECURSIVE Lower(_)
Lower(s) == IF s = "" THEN "" ELSE LowerChar(SubSeq(s, 1, 1)) \o Lower(Tail(s))

\* the parameters that enter the base string: all but Signature.  The code
\* sorts them and joins escape(k)=escape(v) with &; escape quotes & and =,
\* so the joined string determines the sorted list and conversely.
CanonicalParams(params) == Del(params, "Signature")

\* SignatureMethod.build_signature_base_string on the dict encode_request
\* builds: method, lower-cased Host header, path or "/", canonical parameters
build_signature_base_string(req) ==
    IF "Host" \notin DOMAIN req.headers
    THEN Raise("KeyError")
    ELSE Ok([method |-> req.method,
             host |-> Lower(req.headers["Host"]),
             path |-> IF req.path = "" THEN "/" ELSE req.path,
             params |-> CanonicalParams(req.params)])

\* base64(HMAC(secret, base, hash)): an ideal MAC, determined by and
\* determining (hash, secret, base)
Hmac(alg, secret, base) == [alg |-> alg, secret |-> secret, base |-> base]

\* SignatureMethod_HMAC_SHA1 / _SHA256 . build_signature
build_signature(name, req, aws_secret) ==
    LET b == build_signature_base_string(req)
    IN  IF b.exc # "" THEN b ELSE Ok(Hmac(name, aws_secret, b.val))

\* AWSSignatureFilterRule.signature_methods
signature_methods == {[name |-> "HmacSHA1", version |-> "2"],
                      [name |-> "HmacSHA256", version |-> "2"]}

get_signature_method(name, version) ==
    IF [name |-> name, version |-> version] \in signature_methods
    THEN Ok(name)
    ELSE Raise("RuleException")

\* a filter that rejects a request stamped at this very second
validate_timestamp_strict(rule, req) ==
    IF "Timestamp" \notin DOMAIN req.params THEN Raise("KeyError")
    ELSE LET ts == parse_timestamp(req.params["Timestamp"])
         IN  IF ts.exc # "" THEN ts
             ELSE IF ts.val >= Now THEN Raise("RuleException")
             ELSE Ok(TRUE)

\* AWSSignatureFilterRule.validate_timestamp; Now is what time.time() returns
validate_timestamp(rule, req) ==
    IF "Timestamp" \notin DOMAIN req.params THEN Raise("KeyError")
    ELSE LET ts == parse_timestamp(req.params["Timestamp"])
             hasExp == "Expires" \in DOMAIN req.params
             expires == IF hasExp THEN parse_timestamp(req.params["Expires"])
                        ELSE Ok(0)
         IN  IF ts.exc # "" THEN ts
             ELSE IF expires.exc # "" THEN expires
             ELSE IF hasExp /\ expires.val < Now THEN Raise("RuleException")
             ELSE IF ts.val > Now THEN Raise("RuleException")
             ELSE IF rule.max_signature_age # 0
                     /\ ts.val < Now - rule.max_signature_age
                  THEN Raise("RuleException")
             ELSE Ok(TRUE)

get_credentials(rule, req) ==
    IF "AWSAccessKeyId" \notin DOMAIN req.params THEN Raise("KeyError")
    ELSE LET hits == {i \in DOMAIN rule.creds :
                         rule.creds[i].key = req.params["AWSAccessKeyId"]}
         IN  IF hits = {} THEN Raise("RuleException")
             ELSE Ok(rule.creds[CHOOSE i \in hits : \A j \in hits : i <= j].secret)

validate_signature(rule, req, aws_secret) ==
    IF "SignatureMethod" \notin DOMAIN req.params THEN Raise("KeyError")
    ELSE IF "SignatureVersion" \notin DOMAIN req.params THEN Raise("KeyError")
    ELSE LET signer == get_signature_method(req.params["SignatureMethod"],
                                            req.params["SignatureVersion"])
         IN  IF signer.exc # "" THEN signer
             ELSE LET expected == build_signature(signer.val, req, aws_secret)
                  IN  IF expected.exc # "" THEN expected
                      ELSE IF "Signature" \notin DOMAIN req.params
                           THEN Raise("KeyError")
                      ELSE Ok(req.params["Signature"] = expected.val)

\* AWSSignatureFilterRule.__call__
AWSSignatureFilterRule(rule, req) ==
    LET t == validate_timestamp(rule, req)
        c == get_credentials(rule, req)
    IN  IF t.exc # "" THEN t
        ELSE IF c.exc # "" THEN c
        ELSE validate_signature(rule, req, c.val)

----------------------------------------------------------------------------
(* find_rule: the class registered for a verb, then its __call__ *)

RequestVerbs == {"method", "scheme", "script_name", "path_info", "remote_user",
                 "remote_addr", "host", "host_url", "application_url",
                 "path_url", "url", "path", "path_qs", "query_string"}

\* a compiled match or filter rule, called on the request
CallMatchRule(rule, req) ==
    CASE rule.verb = "all" -> AllMatchRule(rule, req)
      [] rule.verb = "none" -> NoneMatchRule(rule, req)
      [] rule.verb = "header" -> HeaderMatchRule(rule, req)
      [] rule.verb = "aws_signature" -> AWSSignatureFilterRule(rule, req)
      [] rule.verb \in RequestVerbs -> RequestMatchRule(rule, req)

----------------------------------------------------------------------------
(* Modify rules: goldengate/rules/modify.py *)

\* webob keeps attributes that are not properties of the class in
\* environ['webob.adhoc_attrs'], a dict it creates on the first such
\* assignment: adhoc.present says whether the environ holds that dict
SetAdhocAttr(obj, attr, value) ==
    [obj EXCEPT !.adhoc = [present |-> TRUE,
                           attrs |-> Put(obj.adhoc.attrs, attr, value)]]

\* URLModifyRule.__call__: request.__setattr__('goldengate_' + verb, value)
URLModifyRule(rule, obj) ==
    Ok(SetAdhocAttr(obj, IF rule.verb = "url" THEN "goldengate_url"
                         ELSE "goldengate_method", rule.value))

\* RequestModifyRule.__call__: request.__setattr__(verb, value) on a
\* property of the request
RequestModifyRule(rule, obj) ==
    CASE rule.verb = "body" -> Ok([obj EXCEPT !.body = rule.value])
      [] rule.verb = "content_type" ->
            Ok([obj EXCEPT !.headers = Put(obj.headers, "Content-Type", rule.value)])
      [] rule.verb = "host" ->
            Ok([obj EXCEPT !.headers = Put(obj.headers, "Host", rule.value)])

\* re.finditer('\$([a-z_]+)', value) finds a template variable
HasTemplateVar(value) == value \in {"$remote_user", "$remote_addr"}

\* HeaderModifyRule.template_value: the key it looks up is match.group(0),
\* which keeps the "$", so neither getattr(request, key) nor
\* request.environ.get(key) finds it and the rule raises
template_value(rule, obj) ==
    IF HasTemplateVar(rule.value) THEN Raise("RuleException") ELSE Ok(rule.value)

header_set(rule, obj, value) ==
    Ok([obj EXCEPT !.headers = Put(obj.headers, rule.key, value)])

header_remove(rule, obj) ==
    IF rule.key \notin DOMAIN obj.headers
    THEN Raise("KeyError")
    ELSE Ok([obj EXCEPT !.headers = Del(obj.headers, rule.key)])

\* HeaderModifyRule.__call__
HeaderModifyRule(rule, obj) ==
    LET value == template_value(rule, obj)
    IN  IF value.exc # "" THEN value
        ELSE IF rule.action = "set" THEN header_set(rule, obj, value.val)
        ELSE header_remove(rule, obj)

\* a compiled modify rule, called on the request or the response
CallModifyRule(rule, obj) ==
    CASE rule.verb = "header" -> HeaderModifyRule(rule, obj)
      [] rule.verb \in {"url", "method"} -> URLModifyRule(rule, obj)
      [] rule.verb \in {"body", "content_type", "host"} -> RequestModifyRule(rule, obj)

----------------------------------------------------------------------------
(* RuleEngine: goldengate/__init__.py *)

\* a compiled stage is a sequence of [rule, text0]: the rule object and the
\* first token of the rule's text

RECURSIVE test_match_from(_, _, _)
test_match_from(compiled, req, i) ==
    IF i > Len(compiled) THEN Ok(TRUE)
    ELSE LET result == CallMatchRule(compiled[i].rule, req)
         IN  IF result.exc # "" THEN result
             ELSE IF ~result.val THEN Ok(FALSE)
             ELSE test_match_from(compiled, req, i + 1)

test_match(compiled, req) == test_match_from(compiled, req, 1)

\* Python truth values as "True", "False", "None" (falling off the loop)
PyNot(v) == IF v = "True" THEN "False" ELSE "True"
PyBool(b) == IF b THEN "True" ELSE "False"

RECURSIVE test_filter_from(_, _, _)
\* a filter stage in which the last deciding rule wins
test_filter_last(compiled, req, i) ==
    IF i > Len(compiled) THEN Ok("None")
    ELSE LET result == CallMatchRule(compiled[i].rule, req)
             later == test_filter_from(compiled, req, i + 1)
         IN  IF result.exc # "" THEN result
             ELSE IF later # Ok("None") THEN later
             ELSE IF compiled[i].text0 = "reject" THEN Ok(PyNot(PyBool(result.val)))
             ELSE IF compiled[i].text0 = "permit" THEN Ok(PyBool(result.val))
             ELSE later

\* test_filter, lines 81-86: the loop from rule i on
test_filter_from(compiled, req, i) ==
    IF i > Len(compiled) THEN Ok("None")
    ELSE LET result == CallMatchRule(compiled[i].rule, req)
         IN  IF result.exc # "" THEN result
             ELSE IF compiled[i].text0 = "reject" THEN Ok(PyNot(PyBool(result.val)))
             ELSE IF compiled[i].text0 = "permit" THEN Ok(PyBool(result.val))
             ELSE test_filter_from(compiled, req, i + 1)

test_filter(compiled, req) == test_filter_from(compiled, req, 1)

\* modify_request and modify_response: each rule's output feeds the next
RECURSIVE modify_from(_, _, _)
modify_from(compiled, obj, i) ==
    IF i > Len(compiled) THEN Ok(obj)
    ELSE LET result == CallModifyRule(compiled[i].rule, obj)
         IN  IF result.exc # "" THEN [exc |-> result.exc, val |-> obj]
             ELSE modify_from(compiled, result.val, i + 1)

modify_request(compiled, req) == modify_from(compiled, req, 1)

modify_response(compiled, resp) == modify_from(compiled, resp, 1)

----------------------------------------------------------------------------
(* Application.proxy_request, up to the upstream call *)

\* a proxy step that forwards the request without its Host header
ProxyHeadersWithoutHost(req) ==
    LET h0 == IF req.headers["Content-Type"] = ""
              THEN Del(req.headers, "Content-Type") ELSE req.headers
        h1 == Put(h0, "Content-Length", ToString(Len(req.body)))
    IN  Del(Put(h1, "Connection", "close"), "Host")

\* the headers proxy_request writes before it connects
ProxyHeaders(req) ==
    LET h0 == IF req.headers["Content-Type"] = ""
              THEN Del(req.headers, "Content-Type") ELSE req.headers
        h1 == Put(h0, "Content-Length", ToString(Len(req.body)))
    IN  Put(h1, "Connection", "close")

\* adhoc = {url, method}, overridden by the goldengate_* attributes
ProxyTarget(req) ==
    LET a == req.adhoc.attrs
    IN  [url |-> IF "goldengate_url" \in DOMAIN a THEN a["goldengate_url"] ELSE req.url,
         method |-> IF "goldengate_method" \in DOMAIN a THEN a["goldengate_method"]
                    ELSE req.method]

\* the request as proxy_request leaves it, and the step that raised if any:
\* [exc, req, target]
proxy_prepare(req) ==
    IF "Content-Type" \notin DOMAIN req.headers
    THEN [exc |-> "KeyError", req |-> req, target |-> ProxyTarget(req)]
    ELSE LET r1 == [req EXCEPT !.headers = ProxyHeaders(req)]
             t == ProxyTarget(r1)
         IN  IF ~req.adhoc.present
             THEN [exc |-> "KeyError", req |-> r1, target |-> t]
             ELSE IF t.url.scheme \notin {"http", "https"}
             THEN [exc |-> "UnboundLocalError", req |-> r1, target |-> t]
             ELSE [exc |-> "", req |-> r1, target |-> t]

----------------------------------------------------------------------------
(* Application.__call__ *)

\* a handler that catches the rule library's own exception class only
CatchesRuleException(exc) == exc = "RuleException"

\* except Exception: every exception class of the model derives from it
Catches(exc) == exc \in ExceptionClasses

\* a loop body that ends without `break` goes on with the next ruleset
BreakMissing(i) == [pc |-> "match", idx |-> i + 1]

\* `break` (line 251) leaves the for-loop
Break(i) == [pc |-> "finish", idx |-> i]

\* a ruleset that does not match ends the loop
ContinueLeavesLoop(i) == [pc |-> "finish", idx |-> i]

\* `continue` (line 239) goes to the next ruleset
Continue(i) == [pc |-> "match", idx |-> i + 1]

\* a handler that answers 500 and goes on with the next ruleset
HandleAndContinue(stage, exc) ==
    /\ raised' = stage
    /\ response' = Response500
    /\ pc' = Continue(idx).pc
    /\ idx' = Continue(idx).idx

\* an exception raised at `stage` inside the try block: caught, the response
\* becomes 500 and the loop is left; uncaught, it leaves __call__
Handle(stage, exc) ==
    /\ raised' = stage
    /\ IF Catches(exc)
       THEN /\ response' = Response500
            /\ pc' = Break(idx).pc
            /\ idx' = Break(idx).idx
       ELSE /\ pc' = "crashed"
            /\ UNCHANGED <<response, idx>>

\* a filter whose 403 is not followed by `else`: the request is processed on
OnFilterWithoutElse(result) ==
    [response |-> IF result # "True" THEN Response403 ELSE response,
     pc |-> "modify_request", idx |-> idx]

\* a filter that answers 403 only to an explicit denial
OnFilterDeniesFalseOnly(result) ==
    IF result = "False"
    THEN [response |-> Response403, pc |-> Break(idx).pc, idx |-> Break(idx).idx]
    ELSE [response |-> response, pc |-> "modify_request", idx |-> idx]

\* lines 241-243: a filter result that is not true answers 403
OnFilter(result) ==
    IF result # "True"
    THEN [response |-> Response403, pc |-> Break(idx).pc, idx |-> Break(idx).idx]
    ELSE [response |-> response, pc |-> "modify_request", idx |-> idx]

\* lines 230-233: request = Request(environ); response = None; the loop starts
Call ==
    /\ pc = "idle"
    /\ request' = environ
    /\ response' = NoResponse
    /\ idx' = 1
    /\ pc' = "match"
    /\ UNCHANGED <<rules, environ, calls, selected, decision, raised, sent, lockvars, callvars>>

\* line 238
TestMatch ==
    /\ pc = "match"
    /\ idx <= Len(rules)
    /\ IF "match" \notin DOMAIN rules[idx]
       THEN /\ Handle("match", "KeyError")
            /\ UNCHANGED <<calls, selected>>
       ELSE LET r == test_match(rules[idx]["match"], request)
            IN  /\ calls' = Append(calls, <<"match", idx>>)
                /\ IF r.exc # ""
                   THEN Handle("match", r.exc) /\ UNCHANGED selected
                   ELSE IF ~r.val
                   THEN /\ pc' = Continue(idx).pc
                        /\ idx' = Continue(idx).idx
                        /\ UNCHANGED <<response, raised, selected>>
                   ELSE /\ pc' = "filter"
                        /\ selected' = idx
                        /\ UNCHANGED <<idx, response, raised>>
    /\ UNCHANGED <<rules, environ, request, decision, sent, lockvars, callvars>>

\* lines 241-242
TestFilter ==
    /\ pc = "filter"
    /\ IF "filter" \notin DOMAIN rules[idx]
       THEN /\ Handle("filter", "KeyError")
            /\ UNCHANGED <<calls, decision>>
       ELSE LET r == test_filter(rules[idx]["filter"], request)
            IN  /\ calls' = Append(calls, <<"filter", idx>>)
                /\ IF r.exc # ""
                   THEN Handle("filter", r.exc) /\ UNCHANGED decision
                   ELSE /\ decision' = IF r.val = "True" THEN "permit" ELSE "deny"
                        /\ response' = OnFilter(r.val).response
                        /\ pc' = OnFilter(r.val).pc
                        /\ idx' = OnFilter(r.val).idx
                        /\ UNCHANGED raised
    /\ UNCHANGED <<rules, environ, request, selected, sent, lockvars, callvars>>

\* line 244
ModifyRequest ==
    /\ pc = "modify_request"
    /\ IF "modify_request" \notin DOMAIN rules[idx]
       THEN /\ Handle("modify_request", "KeyError")
            /\ UNCHANGED <<calls, request>>
       ELSE LET r == modify_request(rules[idx]["modify_request"], request)
            IN  /\ calls' = Append(calls, <<"modify_request", idx>>)
                /\ request' = r.val
                /\ IF r.exc # ""
                   THEN Handle("modify_request", r.exc)
                   ELSE /\ pc' = "proxy"
                        /\ UNCHANGED <<idx, response, raised>>
    /\ UNCHANGED <<rules, environ, selected, decision, sent, lockvars, callvars>>

\* line 245: proxy_request and the upstream server's answer
ProxyRequest ==
    /\ pc = "proxy"
    /\ \E u \in UpstreamOutcomes :
         LET p == proxy_prepare(request)
         IN  /\ calls' = Append(calls, <<"proxy", idx>>)
             /\ request' = p.req
             /\ IF p.exc # ""
                THEN Handle("proxy", p.exc) /\ UNCHANGED sent
                ELSE /\ sent' = [method |-> p.target.method, url |-> p.target.url,
                                 body |-> p.req.body, headers |-> p.req.headers]
                     /\ IF u = ConnectionFailed
                        THEN Handle("proxy", "IOError")
                        ELSE /\ response' = u
                             /\ pc' = "modify_response"
                             /\ UNCHANGED <<idx, raised>>
    /\ UNCHANGED <<rules, environ, selected, decision, lockvars, callvars>>

\* lines 246-247, then the break of line 251
ModifyResponse ==
    /\ pc = "modify_response"
    /\ IF "modify_response" \notin DOMAIN rules[idx]
       THEN /\ Handle("modify_response", "KeyError")
            /\ UNCHANGED calls
       ELSE LET r == modify_response(rules[idx]["modify_response"], response)
            IN  /\ calls' = Append(calls, <<"modify_response", idx>>)
                /\ IF r.exc # ""
                   THEN Handle("modify_response", r.exc)
                   ELSE /\ response' = r.val
                        /\ pc' = Break(idx).pc
                        /\ idx' = Break(idx).idx
                        /\ UNCHANGED raised
    /\ UNCHANGED <<rules, environ, request, selected, decision, sent, lockvars, callvars>>

\* the for-loop is over: by a break, or with no ruleset left
LoopOver == pc = "finish" \/ (pc = "match" /\ idx > Len(rules))

\* lines 253-256: if not response: 501; return response(environ, start_response)
Finish ==
    /\ LoopOver
    /\ response' = IF response = NoResponse THEN Response501 ELSE response
    /\ pc' = "done"
    /\ UNCHANGED <<rules, idx, environ, request, calls, selected, decision,
                   raised, sent, lockvars, callvars>>

----------------------------------------------------------------------------
(* Configurations: what load_config can have compiled *)

\* one entry of RuleEngine.compiled: the rule object and text[0]
Compiled(text0, rule) == [rule |-> rule, text0 |-> text0]

RuleAll == [verb |-> "all"]
RuleMethodIsGet == [verb |-> "method", matchtype |-> "is", params |-> <<"GET">>]
RuleAddrLoopback ==
    [verb |-> "remote_addr", matchtype |-> "subnet", params |-> <<"127.0.0.0/8">>]
RuleUrlSet == [verb |-> "url", action |-> "set", value |-> UpstreamUrl]
RuleHeaderSetUser ==
    [verb |-> "header", action |-> "set", key |-> "X-User", value |-> "$remote_user"]
RuleHeaderRemoveServer ==
    [verb |-> "header", action |-> "remove", key |-> "Server", value |-> ""]

\* match: [all]  /  match: [method is GET, remote_addr subnet 127.0.0.0/8]
MatchStages ==
    { <<Compiled("all", RuleAll)>>,
      <<Compiled("method", RuleMethodIsGet), Compiled("remote_addr", RuleAddrLoopback)>> }

\* filter: [permit all] / [reject method is GET] /
\*         [permit remote_addr subnet 127.0.0.0/8] / [] /
\*         [allow all] / [allow remote_addr subnet 127.0.0.0/8]
FilterStages ==
    { <<Compiled("permit", RuleAll)>>,
      <<Compiled("reject", RuleMethodIsGet)>>,
      <<Compiled("permit", RuleAddrLoopback)>>,
      <<>>,
      <<Compiled("allow", RuleAll)>>,
      <<Compiled("allow", RuleAddrLoopback)>> }

\* the sections a ruleset has besides match and filter
TailBare == EmptyDict
TailEmpty == [s \in {"modify_request", "modify_response", "audit_request",
                     "audit_response"} |-> <<>>]
TailRewrite ==
    [s \in {"modify_request", "modify_response", "audit_request",
             "audit_response"} |->
        IF s = "modify_request" THEN <<Compiled("url", RuleUrlSet)>>
        ELSE IF s = "modify_response" THEN <<Compiled("header", RuleHeaderRemoveServer)>>
        ELSE <<>>]
TailTemplate ==
    [s \in {"modify_request", "modify_response"} |->
        IF s = "modify_request" THEN <<Compiled("header", RuleHeaderSetUser)>>
        ELSE <<>>]
Tails == {TailBare, TailEmpty, TailRewrite, TailTemplate}

\* engines: one RuleEngine per section of the YAML document
Ruleset(m, f, tail) ==
    [s \in {"match", "filter"} \cup DOMAIN tail |->
        IF s = "match" THEN m ELSE IF s = "filter" THEN f ELSE tail[s]]

RulesetPool ==
    { Ruleset(m, f, TailRewrite) : m \in MatchStages, f \in FilterStages }
    \cup { Ruleset(<<Compiled("all", RuleAll)>>, <<Compiled("permit", RuleAll)>>, t) :
             t \in Tails }

Configs == UNION { [1..n -> RulesetPool] : n \in 0..MaxRulesets }

----------------------------------------------------------------------------
(* Requests *)

MkRequest(method, addr, adhoc, params) ==
    [method |-> method,
     remote_addr |-> addr,
     url |-> GatewayUrl,
     path |-> GatewayUrl.path,
     headers |-> [h \in {"Host", "Content-Type"} |->
                    IF h = "Host" THEN "GoldenGate.Example.com"
                    ELSE IF method = "POST" THEN "application/x-www-form-urlencoded"
                    ELSE ""],
     params |-> params,
     body |-> IF method = "POST" THEN "Action=ListUsers" ELSE "",
     adhoc |-> [present |-> adhoc, attrs |-> EmptyDict]]

Requests ==
    { MkRequest(m, a, d, [k \in {"Action"} |-> "ListUsers"]) :
        m \in {"GET", "POST"}, a \in {"127.0.0.1", "unknown"}, d \in BOOLEAN }

----------------------------------------------------------------------------
(* The pipeline's specification *)

InitLockIdle ==
    /\ store = EmptyDict
    /\ gpc = EmptyDict
    /\ gid = EmptyDict
    /\ gresult = EmptyDict
    /\ cpc = EmptyDict
    /\ cid = EmptyDict
    /\ clocal = EmptyDict
    /\ outbox = {}
    /\ bpc = EmptyDict

\* no function is called on its own
NotCalled == [exc |-> "NotCalled", val |-> FALSE]

InitCallIdle ==
    /\ op = ""
    /\ args = <<>>
    /\ ret = NotCalled

InitPipeline(configs, requests) ==
    /\ rules \in configs
    /\ environ \in requests
    /\ request = environ
    /\ pc = "idle"
    /\ idx = 0
    /\ response = NoResponse
    /\ calls = <<>>
    /\ selected = 0
    /\ decision = ""
    /\ raised = ""
    /\ sent = NoneSent

Init == InitPipeline(Configs, Requests) /\ InitLockIdle /\ InitCallIdle

Next ==
    \/ Call
    \/ TestMatch
    \/ TestFilter
    \/ ModifyRequest
    \/ ProxyRequest
    \/ ModifyResponse
    \/ Finish

Spec == Init /\ [][Next]_vars

----------------------------------------------------------------------------
(* The AWS filter's specification: one ruleset, `permit aws_signature`, and *)
(* requests with every combination of signature parameters                  *)

Creds == << [name |-> "example@example.com", key |-> "Nj4jT6JyEgMtDUgU",
             secret |-> "yPhnQEuB9CkksqXb6RaggqTkNEBEdpJC"],
            [name |-> "example2@example.com", key |-> "us6LJYaJqag67C9G",
             secret |-> "ph99WLvGy9jPvvWW6L3ELncfXCNzQlHr"] >>

RuleAwsSignature ==
    [verb |-> "aws_signature", creds |-> Creds, max_signature_age |-> MaxSignatureAge]

AwsRuleset ==
    Ruleset(<<Compiled("all", RuleAll)>>,
            <<Compiled("permit", RuleAwsSignature)>>, TailRewrite)

\* a Timestamp or Expires string that denotes the instant t
Iso(t) == [iso |-> TRUE, secs |-> t]
NotIso == [iso |-> FALSE, secs |-> 0]

\* an optional parameter: has = FALSE leaves it out of the query
Absent(v) == [has |-> FALSE, v |-> v]
Present(v) == [has |-> TRUE, v |-> v]

TimestampOptions ==
    {Absent(NotIso), Present(NotIso)} \cup
    { Present(Iso(t)) : t \in {Now + 1, Now, Now - MaxSignatureAge,
                               Now - MaxSignatureAge - 1} }
ExpiresOptions == {Absent(NotIso), Present(Iso(Now - 1)), Present(Iso(Now + 60))}
KeyOptions == {Absent(""), Present(Creds[2].key), Present("AKIDUNKNOWN")}
MethodOptions == {Absent(""), Present("HmacSHA256"), Present("HmacMD5")}
VersionOptions == {Absent(""), Present("2"), Present("4")}
SignatureOptions == {"absent", "signed", "forged"}

\* the query parameters of a request, Signature aside
UnsignedParams(ts, ex, key, sm, sv) ==
    LET opt == [k \in {"Timestamp", "Expires", "AWSAccessKeyId", "SignatureMethod",
                       "SignatureVersion"} |->
                  CASE k = "Timestamp" -> ts
                    [] k = "Expires" -> ex
                    [] k = "AWSAccessKeyId" -> key
                    [] k = "SignatureMethod" -> sm
                    [] k = "SignatureVersion" -> sv]
    IN  [k \in {"Action"} \cup {x \in DOMAIN opt : opt[x].has} |->
            IF k = "Action" THEN "ListUsers" ELSE opt[k].v]

\* the client's signature: computed with the secret of Creds[2] ("signed")
\* or with a secret that is not in the credentials file ("forged")
ClientSignature(req, sig) ==
    Hmac(IF "SignatureMethod" \in DOMAIN req.params
         THEN req.params["SignatureMethod"] ELSE "HmacSHA256",
         IF sig = "signed" THEN Creds[2].secret ELSE "not-the-secret",
         build_signature_base_string(req).val)

AwsRequest(ts, ex, key, sm, sv, sig) ==
    LET req == MkRequest("GET", "127.0.0.1", FALSE, UnsignedParams(ts, ex, key, sm, sv))
    IN  IF sig = "absent" THEN req
        ELSE [req EXCEPT !.params = Put(req.params, "Signature", ClientSignature(req, sig))]

AwsRequests ==
    { AwsRequest(ts, ex, key, sm, sv, sig) :
        ts \in TimestampOptions, ex \in ExpiresOptions, key \in KeyOptions,
        sm \in MethodOptions, sv \in VersionOptions, sig \in SignatureOptions }

InitAws == InitPipeline({<<AwsRuleset>>}, AwsRequests) /\ InitLockIdle /\ InitCallIdle

SpecAws == InitAws /\ [][Next]_vars

----------------------------------------------------------------------------
(* TimeLockPolicy: goldengate/policy.py *)

Grants == 1..MaxGrants
Cancels == 1..MaxCancels
Others == 1..MaxOthers
Uuids == 1..MaxUuids

\* TimeLock(id=..., cancelled=False)
TimeLock(cancelled) == [cancelled |-> cancelled]

\* TimeLock.get(id): the stored record, or None
TimeLockGet(id) == IF id \in DOMAIN store THEN Ok(store[id]) ELSE Raise("None")

\* grant, lines 136-138: uuid4 draws an id no record has; the record is saved
GrantSave(g) ==
    /\ gpc[g] = "idle"
    /\ \E id \in Uuids \ DOMAIN store :
         /\ gid' = [gid EXCEPT ![g] = id]
         /\ store' = Put(store, id, TimeLock(FALSE))
    /\ gpc' = [gpc EXCEPT ![g] = "saved"]
    /\ UNCHANGED <<gresult, cpc, cid, clocal, outbox, bpc, pipevars, callvars>>

\* grant, lines 139-145: the notification with the request_uuid is sent
GrantNotify(g) ==
    /\ gpc[g] = "saved"
    /\ outbox' = outbox \cup {gid[g]}
    /\ gpc' = [gpc EXCEPT ![g] = "sleeping"]
    /\ UNCHANGED <<store, gid, gresult, cpc, cid, clocal, bpc, pipevars, callvars>>

\* grant, line 146: time.sleep(self.lock_duration) returns
GrantWake(g) ==
    /\ gpc[g] = "sleeping"
    /\ gpc' = [gpc EXCEPT ![g] = "woken"]
    /\ UNCHANGED <<store, gid, gresult, cpc, cid, clocal, outbox, bpc, pipevars, callvars>>

\* a grant that writes its own stale TimeLock object back before it reads
GrantReadWritesBack(g) ==
    /\ gpc[g] = "woken"
    /\ store' = Put(store, gid[g], TimeLock(FALSE))
    /\ gresult' = [gresult EXCEPT ![g] = PyNot(PyBool(store[gid[g]].cancelled))]
    /\ gpc' = [gpc EXCEPT ![g] = "done"]
    /\ UNCHANGED <<gid, cpc, cid, clocal, outbox, bpc, pipevars, callvars>>

\* grant, line 147: return not TimeLock.get(request_uuid).cancelled
GrantRead(g) ==
    /\ gpc[g] = "woken"
    /\ gresult' = [gresult EXCEPT ![g] = PyNot(PyBool(TimeLockGet(gid[g]).val.cancelled))]
    /\ gpc' = [gpc EXCEPT ![g] = "done"]
    /\ UNCHANGED <<store, gid, cpc, cid, clocal, outbox, bpc, pipevars, callvars>>

\* a cancel that makes the record it does not find
CancelGetOrCreate(c) ==
    /\ cpc[c] = "idle"
    /\ \E id \in Uuids :
         /\ cid' = [cid EXCEPT ![c] = id]
         /\ clocal' = [clocal EXCEPT ![c] =
                          IF TimeLockGet(id).exc = "" THEN TimeLockGet(id).val
                          ELSE TimeLock(FALSE)]
         /\ cpc' = [cpc EXCEPT ![c] = "got"]
    /\ UNCHANGED <<store, gpc, gid, gresult, outbox, bpc, pipevars, callvars>>

\* cancel, lines 127-129: request = TimeLock.get(request_uuid); None raises
CancelGet(c) ==
    /\ cpc[c] = "idle"
    /\ \E id \in Uuids :
         /\ cid' = [cid EXCEPT ![c] = id]
         /\ IF TimeLockGet(id).exc = ""
            THEN /\ clocal' = [clocal EXCEPT ![c] = TimeLockGet(id).val]
                 /\ cpc' = [cpc EXCEPT ![c] = "got"]
            ELSE /\ cpc' = [cpc EXCEPT ![c] = "failed"]
                 /\ UNCHANGED clocal
    /\ UNCHANGED <<store, gpc, gid, gresult, outbox, bpc, pipevars, callvars>>

\* cancel, line 130: request.cancelled = True
CancelSet(c) ==
    /\ cpc[c] = "got"
    /\ clocal' = [clocal EXCEPT ![c] = [@ EXCEPT !.cancelled = TRUE]]
    /\ cpc' = [cpc EXCEPT ![c] = "set"]
    /\ UNCHANGED <<store, gpc, gid, gresult, cid, outbox, bpc, pipevars, callvars>>

\* a cancel that returns without saving
CancelSaveSkipped(c) ==
    /\ cpc[c] = "set"
    /\ cpc' = [cpc EXCEPT ![c] = "done"]
    /\ UNCHANGED <<store, gpc, gid, gresult, cid, clocal, outbox, bpc, pipevars, callvars>>

\* a cancel whose save marks every record of the store
CancelSaveMarksAll(c) ==
    /\ cpc[c] = "set"
    /\ store' = [id \in DOMAIN store |-> clocal[c]]
    /\ cpc' = [cpc EXCEPT ![c] = "done"]
    /\ UNCHANGED <<gpc, gid, gresult, cid, clocal, outbox, bpc, pipevars, callvars>>

\* cancel, line 131: request.save()
CancelSave(c) ==
    /\ cpc[c] = "set"
    /\ store' = Put(store, cid[c], clocal[c])
    /\ cpc' = [cpc EXCEPT ![c] = "done"]
    /\ UNCHANGED <<gpc, gid, gresult, cid, clocal, outbox, bpc, pipevars, callvars>>

\* a BooleanPolicy.grant that is served by the worker a sleeping grant holds
BooleanGrantBehindSleeper(b) ==
    /\ bpc[b] = "idle"
    /\ \A g \in Grants : gpc[g] # "sleeping"
    /\ \E allow \in BOOLEAN : bpc' = [bpc EXCEPT ![b] = PyBool(allow)]
    /\ UNCHANGED <<store, gpc, gid, gresult, cpc, cid, clocal, outbox, pipevars, callvars>>

\* BooleanPolicy.grant, lines 88-89: a request that no time-lock applies to
\* is decided at once: return self.allow
BooleanGrant(b) ==
    /\ bpc[b] = "idle"
    /\ \E allow \in BOOLEAN : bpc' = [bpc EXCEPT ![b] = PyBool(allow)]
    /\ UNCHANGED <<store, gpc, gid, gresult, cpc, cid, clocal, outbox, pipevars, callvars>>

InitPipelineIdle ==
    /\ rules = <<>>
    /\ environ = NoneSent
    /\ request = NoneSent
    /\ pc = "off"
    /\ idx = 0
    /\ response = NoResponse
    /\ calls = <<>>
    /\ selected = 0
    /\ decision = ""
    /\ raised = ""
    /\ sent = NoneSent

InitLock ==
    /\ store = EmptyDict
    /\ gpc = [g \in Grants |-> "idle"]
    /\ gid = [g \in Grants |-> 0]
    /\ gresult = [g \in Grants |-> "pending"]
    /\ cpc = [c \in Cancels |-> "idle"]
    /\ cid = [c \in Cancels |-> 0]
    /\ clocal = [c \in Cancels |-> TimeLock(FALSE)]
    /\ outbox = {}
    /\ bpc = [b \in Others |-> "idle"]
    /\ InitPipelineIdle
    /\ InitCallIdle

\* the time-lock store and the calls that share it
NextLock ==
    \/ \E g \in Grants : GrantSave(g)
    \/ \E g \in Grants : GrantNotify(g)
    \/ \E g \in Grants : GrantWake(g)
    \/ \E g \in Grants : GrantRead(g)
    \/ \E c \in Cancels : CancelGet(c)
    \/ \E c \in Cancels : CancelSet(c)
    \/ \E c \in Cancels : CancelSave(c)

SpecLock == InitLock /\ [][NextLock]_vars

\* the cancels, and the saves of the grants that make the records they find
NextCancel ==
    \/ \E g \in Grants : GrantSave(g)
    \/ \E c \in Cancels : CancelGet(c)
    \/ \E c \in Cancels : CancelSet(c)
    \/ \E c \in Cancels : CancelSave(c)

SpecCancel == InitLock /\ [][NextCancel]_vars

\* time-locked requests next to requests that no time-lock applies to
NextSleep ==
    \/ \E g \in Grants : GrantSave(g)
    \/ \E g \in Grants : GrantNotify(g)
    \/ \E g \in Grants : GrantWake(g)
    \/ \E g \in Grants : GrantRead(g)
    \/ \E b \in Others : BooleanGrant(b)

\* each request runs in its own task: time.sleep suspends only its caller, so
\* a request under a BooleanPolicy is served whatever the time-locked ones
\* do; nothing bounds a grant's sleep, so the grants get no fairness
SpecSleep == InitLock /\ [][NextSleep]_vars /\ \A b \in Others : WF_vars(BooleanGrant(b))

----------------------------------------------------------------------------
(* Matchers: goldengate/policy.py *)

\* children of an AllMatcher or AnyMatcher in the matchers that are checked
MaxChildren == 2

\* the sequences over S of length at most n
SeqsUpTo(S, n) == UNION {[1..k -> S] : k \in 0..n}

\* getattr(request, 'aws_action', None) when the attribute is None
PyNone == "<None>"

AlwaysMatcher == [kind |-> "always"]
EntityMatcher(entities) == [kind |-> "entity", entities |-> entities]
AWSActionMatcher(action) == [kind |-> "action", action |-> action]
NotMatcher(matcher) == [kind |-> "not", matcher |-> matcher]
AllMatcher(matchers) == [kind |-> "all", matchers |-> matchers]
AnyMatcher(matchers) == [kind |-> "any", matchers |-> matchers]

RECURSIVE matches(_, _, _)
RECURSIVE AllMatches(_, _, _, _)
RECURSIVE AnyMatches(_, _, _, _)

\* an AllMatcher that needs at least one child
AllMatchesNonEmpty(matchers, i, entity, req) ==
    IF i > Len(matchers) THEN Len(matchers) > 0
    ELSE IF ~matches(matchers[i], entity, req) THEN FALSE
    ELSE AllMatches(matchers, i + 1, entity, req)

\* AllMatcher.matches: the loop from child i on
AllMatches(matchers, i, entity, req) ==
    IF i > Len(matchers) THEN TRUE
    ELSE IF ~matches(matchers[i], entity, req) THEN FALSE
    ELSE AllMatches(matchers, i + 1, entity, req)

\* AnyMatcher.matches: the loop from child i on
AnyMatches(matchers, i, entity, req) ==
    IF i > Len(matchers) THEN FALSE
    ELSE IF matches(matchers[i], entity, req) THEN TRUE
    ELSE AnyMatches(matchers, i + 1, entity, req)

\* AWSActionMatcher.matches
ActionMatches(m, req) ==
    LET action == IF "aws_action" \in DOMAIN req THEN req["aws_action"] ELSE PyNone
    IN  IF action = PyNone THEN FALSE ELSE action = m.action

\* matcher.matches(entity, request), by the class of the matcher
matches(m, entity, req) ==
    CASE m.kind = "always" -> TRUE
      [] m.kind = "entity" -> entity \in m.entities
      [] m.kind = "action" -> ActionMatches(m, req)
      [] m.kind = "not" -> ~matches(m.matcher, entity, req)
      [] m.kind = "all" -> AllMatches(m.matchers, 1, entity, req)
      [] m.kind = "any" -> AnyMatches(m.matchers, 1, entity, req)

\* entities and requests the policies are asked about
Entities == {"alice", "bob"}
PolicyRequests ==
    { EmptyDict, [a \in {"aws_action"} |-> PyNone],
      [a \in {"aws_action"} |-> "ListUsers"], [a \in {"aws_action"} |-> "DeleteUser"] }

LeafMatchers == {AlwaysMatcher, EntityMatcher({"alice"}), AWSActionMatcher("ListUsers")}
CompositeMatchers ==
    LeafMatchers
    \cup {NotMatcher(m) : m \in LeafMatchers}
    \cup {AllMatcher(ms) : ms \in SeqsUpTo(LeafMatchers, MaxChildren)}
    \cup {AnyMatcher(ms) : ms \in SeqsUpTo(LeafMatchers, MaxChildren)}
Matchers ==
    CompositeMatchers
    \cup {NotMatcher(m) : m \in CompositeMatchers}
    \cup {NotMatcher(NotMatcher(m)) : m \in CompositeMatchers}
    \cup {AllMatcher(<<m, n>>) : m \in CompositeMatchers, n \in LeafMatchers}
    \cup {AnyMatcher(<<m, n>>) : m \in CompositeMatchers, n \in LeafMatchers}

InitMatcher ==
    /\ op = "matches"
    /\ args \in [matcher : Matchers, entity : Entities, request : PolicyRequests]
    /\ ret = NotCalled
    /\ InitPipelineIdle
    /\ InitLockIdle

CallMatches ==
    /\ op = "matches"
    /\ ret = NotCalled
    /\ ret' = Ok(matches(args.matcher, args.entity, args.request))
    /\ UNCHANGED <<op, args, pipevars, lockvars>>

SpecMatcher == InitMatcher /\ [][CallMatches]_vars

----------------------------------------------------------------------------
(* Policies: goldengate/policy.py *)

\* longest list of policies handed to Policy.for_request
MaxPolicies == 2

\* policy objects; `id` stands for the identity of the object
BooleanPolicy(id, allow, matcher) ==
    [kind |-> "BooleanPolicy", id |-> id, allow |-> allow, matcher |-> matcher]
TimeLockPolicy(id, matcher) ==
    [kind |-> "TimeLockPolicy", id |-> id, matcher |-> matcher]

\* MatcherPolicy.applies_to
applies_to(policy, entity, req) == matches(policy.matcher, entity, req)

RECURSIVE for_request_from(_, _, _, _)
\* a scan that goes on after a policy applies and returns the last one
for_request_last(policies, i, entity, req) ==
    IF i > Len(policies) THEN Raise("MissingPolicyException")
    ELSE LET later == for_request_from(policies, i + 1, entity, req)
         IN  IF later.exc = "" THEN later
             ELSE IF applies_to(policies[i], entity, req) THEN Ok(policies[i])
             ELSE later

\* Policy.for_request, lines 69-72: the loop from policy i on
for_request_from(policies, i, entity, req) ==
    IF i > Len(policies) THEN Raise("MissingPolicyException")
    ELSE IF applies_to(policies[i], entity, req) THEN Ok(policies[i])
    ELSE for_request_from(policies, i + 1, entity, req)

\* Policy.for_request(entity, request, policies) with a list given
for_request(entity, req, policies) == for_request_from(policies, 1, entity, req)

PolicyMatchers == LeafMatchers \cup {NotMatcher(m) : m \in LeafMatchers}
PolicyPool(id) ==
    {BooleanPolicy(id, allow, m) : allow \in BOOLEAN, m \in PolicyMatchers}
    \cup {TimeLockPolicy(id, m) : m \in PolicyMatchers}
PolicyLists ==
    UNION {{ps \in [1..k -> UNION {PolicyPool(i) : i \in 1..k}] :
              \A i \in 1..k : ps[i].id = i} : k \in 0..MaxPolicies}

InitPolicy ==
    /\ op = "for_request"
    /\ args \in [policies : PolicyLists, entity : Entities, request : PolicyRequests]
    /\ ret = NotCalled
    /\ InitPipelineIdle
    /\ InitLockIdle

CallForRequest ==
    /\ op = "for_request"
    /\ ret = NotCalled
    /\ ret' = for_request(args.entity, args.request, args.policies)
    /\ UNCHANGED <<op, args, pipevars, lockvars>>

SpecPolicy == InitPolicy /\ [][CallForRequest]_vars

----------------------------------------------------------------------------
(* Timestamp validation on its own: rules/aws.py and auth/aws.py *)

\* Authenticator.TIMESTAMP_THRESHOLD
TIMESTAMP_THRESHOLD == 300

\* instants this far outside the window's ends are tried
MaxSkew == 2

\* Authenticator.authenticate, lines 153-161: the timestamp is parsed and
\* must be neither in the future nor older than TIMESTAMP_THRESHOLD
authenticate_timestamp(timestamp) ==
    LET ts == parse_timestamp(timestamp)
    IN  IF ts.exc # "" THEN Raise("UnauthenticatedException")
        ELSE IF ts.val > Now \/ ts.val < Now - TIMESTAMP_THRESHOLD
        THEN Raise("UnauthenticatedException")
        ELSE Ok(ts.val)

Instants == (Now - TIMESTAMP_THRESHOLD - MaxSkew) .. (Now + MaxSkew)
TimestampArgs ==
    [impl : {"rules", "auth"},
     Timestamp : {Iso(t) : t \in Instants} \cup {NotIso},
     Expires : ExpiresOptions \cup {Present(Iso(Now)), Present(NotIso)},
     max_signature_age : {0, 60, MaxSignatureAge}]

\* the request the filter rule sees for these arguments
TimestampRequest(a) ==
    [params |-> [k \in {"Timestamp"} \cup (IF a.Expires.has THEN {"Expires"} ELSE {}) |->
                    IF k = "Timestamp" THEN a.Timestamp ELSE a.Expires.v]]

InitTimestamp ==
    /\ op = "validate_timestamp"
    /\ args \in TimestampArgs
    /\ ret = NotCalled
    /\ InitPipelineIdle
    /\ InitLockIdle

CallValidateTimestamp ==
    /\ op = "validate_timestamp"
    /\ ret = NotCalled
    /\ ret' = IF args.impl = "rules"
              THEN validate_timestamp([RuleAwsSignature EXCEPT
                                          !.max_signature_age = args.max_signature_age],
                                      TimestampRequest(args))
              ELSE authenticate_timestamp(args.Timestamp)
    /\ UNCHANGED <<op, args, pipevars, lockvars>>

SpecTimestamp == InitTimestamp /\ [][CallValidateTimestamp]_vars

----------------------------------------------------------------------------
(* The filter stage on its own: RuleEngine.test_filter *)

\* longest filter stage
MaxFilterRules == 2

RuleNone == [verb |-> "none"]
\* header User-Agent regex ^curl
RuleUserAgentCurl ==
    [verb |-> "header", key |-> "User-Agent", matchtype |-> "regex", params |-> <<"^curl">>]

\* compile: text[0] is the first word of the rule's text, the verb the second;
\* nothing checks that the first word is permit or reject
FilterRulePool ==
    {Compiled(action, rule) :
        action \in {"permit", "reject"},
        rule \in {RuleAll, RuleNone, RuleUserAgentCurl, RuleMethodIsGet, RuleAddrLoopback}}
    \cup {Compiled("allow", RuleAll), Compiled("allow", RuleAddrLoopback)}

FilterRequests ==
    {[r EXCEPT !.headers = IF ua = "" THEN r.headers ELSE Put(r.headers, "User-Agent", ua)] :
        r \in Requests, ua \in {"", "curl/7.19.7", "Mozilla/5.0"}}

InitFilter ==
    /\ op = "test_filter"
    /\ args \in [compiled : SeqsUpTo(FilterRulePool, MaxFilterRules), request : FilterRequests]
    /\ ret = NotCalled
    /\ InitPipelineIdle
    /\ InitLockIdle

CallTestFilter ==
    /\ op = "test_filter"
    /\ ret = NotCalled
    /\ ret' = test_filter(args.compiled, args.request)
    /\ UNCHANGED <<op, args, pipevars, lockvars>>

SpecFilter == InitFilter /\ [][CallTestFilter]_vars

----------------------------------------------------------------------------
(* modify_request followed by proxy_request, on their own *)

\* longest modify_request stage
MaxModifyRules == 2

\* the rules of a modify_request stage, by their text
ExampleUrl == [scheme |-> "http", netloc |-> "example.com", path |-> "/"]
OverlayRuleTexts ==
    {"url set https://iam.amazonaws.com/", "url set http://example.com/",
     "method set POST", "method set DELETE"}
\* find_rule('modify_request', verb)(*args): the URLModifyRule for the text
OverlayRule(text) ==
    CASE text = "url set https://iam.amazonaws.com/" ->
            [verb |-> "url", action |-> "set", value |-> UpstreamUrl]
      [] text = "url set http://example.com/" ->
            [verb |-> "url", action |-> "set", value |-> ExampleUrl]
      [] text = "method set POST" ->
            [verb |-> "method", action |-> "set", value |-> "POST"]
      [] text = "method set DELETE" ->
            [verb |-> "method", action |-> "set", value |-> "DELETE"]
\* RuleEngine('modify_request', texts).compiled
OverlayStage(texts) ==
    [i \in DOMAIN texts |-> Compiled(OverlayRule(texts[i]).verb, OverlayRule(texts[i]))]

InitOverlay ==
    /\ op = "modify_request"
    /\ args \in [ruleset : SeqsUpTo(OverlayRuleTexts, MaxModifyRules), request : Requests]
    /\ ret = NotCalled
    /\ InitPipelineIdle
    /\ InitLockIdle

\* __call__, line 244: request = ruleset['modify_request'].modify_request(request)
CallModifyRequest ==
    /\ op = "modify_request"
    /\ ret' = modify_request(OverlayStage(args.ruleset), args.request)
    /\ op' = "proxy_request"
    /\ UNCHANGED <<args, pipevars, lockvars>>

\* __call__, line 245: response = self.proxy_request(request), up to the
\* upstream call: ret.val holds the request before and after, and the
\* method and url handed to conn.request
CallProxyRequest ==
    /\ op = "proxy_request"
    /\ ret.exc = ""
    /\ LET p == proxy_prepare(ret.val)
       IN  ret' = [exc |-> p.exc,
                   val |-> [modified |-> ret.val, request |-> p.req, target |-> p.target]]
    /\ op' = "proxied"
    /\ UNCHANGED <<args, pipevars, lockvars>>

NextOverlay == CallModifyRequest \/ CallProxyRequest

SpecOverlay == InitOverlay /\ [][NextOverlay]_vars

----------------------------------------------------------------------------
(* The host line of the signature base string *)

HostNames == {"goldengate.example.com", "GoldenGate.Example.com"}
Ports == {"", "80", "443", "8080"}

\* the host as a client writes it in a URL or a Host header
Netloc(name, port) == IF port = "" THEN name ELSE name \o ":" \o port

\* str.endswith
EndsWith(s, suffix) ==
    /\ Len(s) >= Len(suffix)
    /\ SubSeq(s, Len(s) - Len(suffix) + 1, Len(s)) = suffix

\* ''.join(s.split(':')): the string without its colons
RECURSIVE WithoutColons(_)
WithoutColons(s) ==
    IF s = "" THEN ""
    ELSE (IF SubSeq(s, 1, 1) = ":" THEN "" ELSE SubSeq(s, 1, 1))
         \o WithoutColons(Tail(s))

\* ''.join(host.split(':')[:-1]): what precedes the last colon, colons removed
JoinAllButLast(host) ==
    LET colons == {i \in 1..Len(host) : SubSeq(host, i, i) = ":"}
    IN  IF colons = {} THEN ""
        ELSE LET last == CHOOSE i \in colons : \A j \in colons : j <= i
             IN  WithoutColons(SubSeq(host, 1, last - 1))

\* auth.aws.Request.get_normalized_http_host
get_normalized_http_host(url) ==
    LET host == Lower(url.host)
        scheme == Lower(url.scheme)
    IN  IF \/ scheme = "http" /\ EndsWith(host, ":80")
           \/ scheme = "https" /\ EndsWith(host, ":443")
        THEN JoinAllButLast(host)
        ELSE host

\* auth.aws.SignatureMethod.build_signature_base_string
auth_build_signature_base_string(req) ==
    [method |-> req.method,
     host |-> get_normalized_http_host(req.url),
     path |-> IF req.url.path = "" THEN "/" ELSE req.url.path,
     params |-> CanonicalParams(req.url.parameters)]

\* auth.aws.SignatureMethod_HMAC_SHA1 / _SHA256 . build_signature
auth_build_signature(name, req, aws_secret) ==
    Hmac(name, aws_secret, auth_build_signature_base_string(req))

HostArgs ==
    [impl : {"rules", "auth"},
     scheme : {"http", "https"},
     name : HostNames,
     port : Ports,
     method : {"GET", "POST"},
     path : {"", "/foo/bar"}]

HostParams == [Action |-> "DescribeInstances", Version |-> "2010-08-31"]

\* the dict encode_request builds for the rules of the pipeline
RulesRequest(a) ==
    [params |-> HostParams,
     method |-> a.method,
     headers |-> [Host |-> Netloc(a.name, a.port)],
     path |-> a.path]

\* the request the authenticator works on
AuthRequest(a) ==
    [method |-> a.method,
     url |-> [scheme |-> a.scheme, host |-> Netloc(a.name, a.port),
              path |-> a.path, parameters |-> HostParams]]

\* base string and signature of one request, by either implementation
SignatureOf(a) ==
    IF a.impl = "rules"
    THEN LET b == build_signature_base_string(RulesRequest(a))
             s == build_signature("HmacSHA256", RulesRequest(a), Creds[1].secret)
         IN  IF b.exc # "" THEN b
             ELSE Ok([base |-> b.val, signature |-> s.val])
    ELSE Ok([base |-> auth_build_signature_base_string(AuthRequest(a)),
             signature |-> auth_build_signature("HmacSHA256", AuthRequest(a),
                                                Creds[1].secret)])

InitHost ==
    /\ op = "build_signature"
    /\ args \in HostArgs
    /\ ret = NotCalled
    /\ InitPipelineIdle
    /\ InitLockIdle

CallBuildSignature ==
    /\ op = "build_signature"
    /\ ret = NotCalled
    /\ ret' = SignatureOf(args)
    /\ UNCHANGED <<op, args, pipevars, lockvars>>

SpecHost == InitHost /\ [][CallBuildSignature]_vars

----------------------------------------------------------------------------
(* Re-signing a request, and verifying what arrives upstream *)

FormContentType == "application/x-www-form-urlencoded"

\* the (key, value) items of a dict other than Signature; sorting and
\* joining escape(k)=escape(v) with & is determined by, and determines, this
\* collection.  A bag, since webob's request.params holds a key once for the
\* query string and once for the form body.
ParamItems(d) == SetToBag({<<k, d[k]>> : k \in DOMAIN d \ {"Signature"}})

\* webob's request.params: NestedMultiDict(request.GET, request.POST)
NestedMultiDict(get, post) == [GET |-> get, POST |-> post]
nmd_keys(p) == DOMAIN p.GET \cup DOMAIN p.POST
nmd_getitem(p, k) == IF k \in DOMAIN p.GET THEN p.GET[k] ELSE p.POST[k]
nmd_items(p) == ParamItems(p.GET) (+) ParamItems(p.POST)
\* dict(request.params): keys() and then __getitem__ for each key
nmd_dict(p) == [k \in nmd_keys(p) |-> nmd_getitem(p, k)]

\* a query string: has = FALSE when the URL has no "?"
NoQuery == [has |-> FALSE, params |-> EmptyDict]
Query(params) == [has |-> TRUE, params |-> params]

\* webob's request.url: the "?" is there only with a non-empty query string
request_url(r) ==
    [scheme |-> "http", netloc |-> r.headers["Host"], path |-> r.path,
     query |-> IF r.query.has /\ DOMAIN r.query.params # {} THEN r.query
               ELSE NoQuery]

\* webob's request.POST holds the body of a form sent by POST or PUT
request_params(r) ==
    NestedMultiDict(IF r.query.has THEN r.query.params ELSE EmptyDict,
                    IF r.method \in {"POST", "PUT"} /\ r.content_type = FormContentType
                    THEN r.body ELSE EmptyDict)

\* build_signature_base_string and build_signature of rules.aws, on the
\* items of the parameters
build_signature_items(name, r, items, aws_secret) ==
    IF "Host" \notin DOMAIN r.headers THEN Raise("KeyError")
    ELSE Ok(Hmac(name, aws_secret,
                 [method |-> r.method,
                  host |-> Lower(r.headers["Host"]),
                  path |-> IF r.path = "" THEN "/" ELSE r.path,
                  params |-> items]))

\* the rule built from `aws_sign creds=... key=...`
RuleAwsSign ==
    [verb |-> "aws_sign", key |-> Creds[2].key, secret |-> Creds[2].secret,
     signature_method |-> "HmacSHA256", signature_version |-> "2"]

\* AWSSignModifyRule.__call__; Iso(Now) is what generate_timestamp() returns.
\* quote_plus and escape are undone by the parser of the receiving server.
AWSSignModifyRule(rule, r) ==
    LET url == IF r.overlay.has THEN r.overlay.v ELSE request_url(r)
    IN  IF ~url.query.has THEN Raise("ValueError")
        ELSE LET headers == Del(r.headers, "Authorization")
                 r1 == [r EXCEPT !.headers = headers]
                 p0 == nmd_dict(request_params(r1))
                 p1 == Put(p0, "AWSAccessKeyId", rule.key)
                 p2 == Put(p1, "SignatureVersion", rule.signature_version)
                 p3 == Put(p2, "SignatureMethod", rule.signature_method)
                 params == Put(p3, "Timestamp", Iso(Now))
                 signature == build_signature_items(rule.signature_method, r1,
                                                    ParamItems(params), rule.secret)
                 signed == Put(Del(params, "Signature"), "Signature", signature.val)
             IN  IF signature.exc # "" THEN signature
                 ELSE IF r1.content_type = FormContentType
                 THEN Ok([r1 EXCEPT !.body = signed])
                 ELSE Ok([r1 EXCEPT !.overlay =
                             Present([url EXCEPT !.query = Query(signed)])])

\* what proxy_request sends, as the receiving server reads it: the method,
\* the headers and the body of the request, the path and the query string of
\* goldengate_url when it is set and of request.url otherwise
Upstream(r) ==
    LET url == IF r.overlay.has THEN r.overlay.v ELSE request_url(r)
    IN  [method |-> r.method, headers |-> r.headers, path |-> url.path,
         query |-> url.query, content_type |-> r.content_type,
         body |-> r.body, overlay |-> Absent(url)]

\* AWSSignatureFilterRule.validate_signature on a request whose parameters
\* come from the query string and from the form body
validate_signature_items(r, aws_secret) ==
    LET p == request_params(r)
    IN  IF "SignatureMethod" \notin nmd_keys(p) THEN Raise("KeyError")
        ELSE IF "SignatureVersion" \notin nmd_keys(p) THEN Raise("KeyError")
        ELSE LET signer == get_signature_method(nmd_getitem(p, "SignatureMethod"),
                                                nmd_getitem(p, "SignatureVersion"))
             IN  IF signer.exc # "" THEN signer
                 ELSE LET expected == build_signature_items(signer.val, r,
                                                            nmd_items(p), aws_secret)
                      IN  IF expected.exc # "" THEN expected
                          ELSE IF "Signature" \notin nmd_keys(p) THEN Raise("KeyError")
                          ELSE Ok(nmd_getitem(p, "Signature") = expected.val)

\* auth.aws.Request.signed_request
signed_request(req, signature_method, aws_key, aws_secret) ==
    LET p1 == Put(req.url.parameters, "AWSAccessKeyId", aws_key)
        p2 == Put(p1, "SignatureVersion", signature_method.version)
        p3 == Put(p2, "SignatureMethod", signature_method.name)
        parameters == Put(p3, "Timestamp", Iso(Now))
        prepared == [req EXCEPT !.url.parameters = parameters]
        signature == auth_build_signature(signature_method.name, prepared, aws_secret)
    IN  [prepared EXCEPT !.url.parameters = Put(parameters, "Signature", signature)]

\* Authenticator.authenticate; credentials.for_key looks the key up
authenticate(credentials, req) ==
    LET p == req.url.parameters
    IN  IF ~({"AWSAccessKeyId", "Signature", "SignatureMethod", "SignatureVersion",
              "Timestamp"} \subseteq DOMAIN p)
        THEN Raise("UnauthenticatedException")
        ELSE LET ts == authenticate_timestamp(p["Timestamp"])
                 hits == {i \in DOMAIN credentials :
                             credentials[i].key = p["AWSAccessKeyId"]}
                 name == p["SignatureMethod"]
             IN  IF ts.exc # "" THEN ts
                 ELSE IF hits = {} THEN Raise("UnauthenticatedException")
                 ELSE IF [name |-> name, version |-> p["SignatureVersion"]]
                            \notin signature_methods
                 THEN Raise("UnauthenticatedException")
                 ELSE LET c == credentials[CHOOSE i \in hits : TRUE]
                      IN  IF p["Signature"] = auth_build_signature(name, req, c.secret)
                          THEN Ok(c.name)
                          ELSE Raise("UnauthenticatedException")

\* the signature a client put on the request it sent to the gateway
ClientSignatureValue ==
    Hmac("HmacSHA256", Creds[1].secret,
         [method |-> "GET", host |-> "goldengate.example.com", path |-> "/",
          params |-> EmptyBag])

ActionParams == [Action |-> "DescribeInstances"]
ClientSignedParams ==
    [k \in {"Action", "AWSAccessKeyId", "SignatureMethod", "SignatureVersion",
            "Timestamp", "Signature"} |->
        CASE k = "Action" -> "DescribeInstances"
          [] k = "AWSAccessKeyId" -> Creds[1].key
          [] k = "SignatureMethod" -> "HmacSHA1"
          [] k = "SignatureVersion" -> "2"
          [] k = "Timestamp" -> Iso(Now - 1)
          [] k = "Signature" -> ClientSignatureValue]

AwsEndpoint(query) ==
    [scheme |-> "https", netloc |-> "ec2.amazonaws.com", path |-> "/",
     query |-> query]

SignArgs ==
    [impl : {"rules", "auth"},
     method : {"GET", "POST"},
     path : {"/", "/foo/bar"},
     query : {NoQuery, Query(ActionParams), Query(ClientSignedParams)},
     content_type : {"", FormContentType},
     authorization : BOOLEAN,
     body : {EmptyDict, ActionParams, [Version |-> "2010-08-31"]},
     overlay : {Absent(AwsEndpoint(NoQuery)), Present(AwsEndpoint(NoQuery)),
                Present(AwsEndpoint(Query(EmptyDict)))}]

\* the request the modify rule is given
SignRequest(a) ==
    [method |-> a.method,
     headers |-> IF a.authorization
                 THEN [h \in {"Host", "Authorization"} |->
                          IF h = "Host" THEN "goldengate.example.com"
                          ELSE "AWS Nj4jT6JyEgMtDUgU:c2lnbmF0dXJl"]
                 ELSE [Host |-> "goldengate.example.com"],
     path |-> a.path, query |-> a.query, content_type |-> a.content_type,
     body |-> a.body, overlay |-> a.overlay]

\* the request the authorizer is given
SignAuthRequest(a) ==
    [method |-> a.method,
     url |-> [scheme |-> "https", host |-> "goldengate.example.com",
              path |-> a.path, parameters |-> a.query.params]]

SignAuthMethod == [name |-> "HmacSHA256", version |-> "2"]

\* a request is tampered with by changing the value of one parameter
Tampered(k, v) ==
    CASE k = "Timestamp" -> Iso(Now - 2)
      [] k = "Signature" -> ClientSignatureValue
      [] OTHER -> "tampered"
TamperDict(d, k) == IF k \in DOMAIN d THEN [d EXCEPT ![k] = Tampered(k, d[k])] ELSE d

InitSign ==
    /\ op = "aws_sign"
    /\ args \in {a \in SignArgs :
                    /\ a.content_type = "" => a.body = EmptyDict
                    /\ a.impl = "auth" => /\ a.content_type = ""
                                         /\ ~a.authorization
                                         /\ ~a.overlay.has}
    /\ ret = NotCalled
    /\ InitPipelineIdle
    /\ InitLockIdle

\* the modify rule, or the authorizer, signs the request
CallSign ==
    /\ op = "aws_sign"
    /\ ret' = IF args.impl = "rules"
              THEN AWSSignModifyRule(RuleAwsSign, SignRequest(args))
              ELSE Ok(signed_request(SignAuthRequest(args), SignAuthMethod,
                                     RuleAwsSign.key, RuleAwsSign.secret))
    /\ op' = "signed"
    /\ UNCHANGED <<args, pipevars, lockvars>>

\* the signed request is verified where it arrives
CallVerify ==
    /\ op = "signed"
    /\ ret.exc = ""
    /\ ret' = IF args.impl = "rules"
              THEN validate_signature_items(Upstream(ret.val), RuleAwsSign.secret)
              ELSE authenticate(Creds, ret.val)
    /\ op' = "verified"
    /\ UNCHANGED <<args, pipevars, lockvars>>

\* one parameter of the signed request is changed on its way, and the
\* request is verified where it arrives
CallVerifyTampered(k) ==
    /\ op = "signed"
    /\ ret.exc = ""
    /\ k # "Signature"
    /\ IF args.impl = "rules"
       THEN LET up == Upstream(ret.val)
                t == [up EXCEPT !.query.params = TamperDict(@, k),
                                !.body = TamperDict(@, k)]
            IN  /\ k \in nmd_keys(request_params(up))
                /\ ret' = validate_signature_items(t, RuleAwsSign.secret)
       ELSE /\ k \in DOMAIN ret.val.url.parameters
            /\ ret' = authenticate(Creds,
                         [ret.val EXCEPT !.url.parameters = TamperDict(@, k)])
    /\ op' = "tampered"
    /\ UNCHANGED <<args, pipevars, lockvars>>

SignedKeys == {"Action", "Version", "AWSAccessKeyId", "SignatureMethod",
               "SignatureVersion", "Timestamp"}

NextSign == CallSign \/ CallVerify \/ \E k \in SignedKeys : CallVerifyTampered(k)

SpecSign == InitSign /\ [][NextSign]_vars

----------------------------------------------------------------------------
(* The registry of rule classes, and the lookup compile makes *)

RequestVerbNames ==
    {"method", "scheme", "script_name", "path_info", "remote_user",
     "remote_addr", "host", "host_url", "application_url", "path_url",
     "url", "path", "path_qs", "query_string"}

RuleClass(name, ruletype, verbs) ==
    [name |-> name, ruletype |-> ruletype, verbs |-> verbs]

\* the add_rule calls, in the order in which rules/__init__.py imports
\* match, filter, modify and aws
Registrations ==
    << RuleClass("AllMatchRule", "match", {"all"}),
       RuleClass("NoneMatchRule", "match", {"none"}),
       RuleClass("RequestMatchRule", "match", RequestVerbNames),
       RuleClass("HeaderMatchRule", "match", {"header"}),
       RuleClass("AllFilterRule", "filter", {"all"}),
       RuleClass("NoneFilterRule", "filter", {"none"}),
       RuleClass("RequestFilterRule", "filter", RequestVerbNames),
       RuleClass("HeaderFilterRule", "filter", {"header"}),
       RuleClass("HeaderModifyRule", "modify", {"header"}),
       RuleClass("URLModifyRule", "modify", {"url", "method"}),
       RuleClass("RequestModifyRule", "modify",
                 {"content_type", "charset", "host", "body", "cache_control"}),
       RuleClass("AWSSignatureFilterRule", "filter", {"aws_signature"}),
       RuleClass("AWSSignModifyRule", "modify", {"aws_sign"}) >>

\* add_rule: the class is entered under each of its verbs in the dict of its
\* ruletype, which is made when it is not there
add_rule(all, rule) ==
    LET old == IF rule.ruletype \in DOMAIN all THEN all[rule.ruletype] ELSE EmptyDict
        new == [v \in DOMAIN old \cup rule.verbs |->
                   IF v \in rule.verbs THEN rule.name ELSE old[v]]
    IN  Put(all, rule.ruletype, new)

RECURSIVE AddRules(_, _)
AddRules(all, n) ==
    IF n = 0 THEN all ELSE add_rule(AddRules(all, n - 1), Registrations[n])

\* all_rules once the package is imported
all_rules == AddRules(EmptyDict, Len(Registrations))

\* str.startswith
StartsWith(s, prefix) ==
    Len(s) >= Len(prefix) /\ SubSeq(s, 1, Len(prefix)) = prefix

\* find_rule
find_rule(ruletype, verb) ==
    LET t1 == IF StartsWith(ruletype, "modify_") THEN "modify" ELSE ruletype
        t2 == IF StartsWith(t1, "audit_") THEN "audit" ELSE t1
    IN  IF t2 \notin DOMAIN all_rules THEN Raise("KeyError")
        ELSE IF verb \notin DOMAIN all_rules[t2] THEN Raise("KeyError")
        ELSE Ok(all_rules[t2][verb])

\* RuleEngine.compile, lines 49-55, for one rule split into words: the verb
\* is the second word in the filter stage and the first in every other, and
\* find_rule gives the class
compile_rule(ruletype, rule) ==
    IF ruletype = "filter"
    THEN IF Len(rule) < 2 THEN Raise("IndexError") ELSE find_rule(ruletype, rule[2])
    ELSE find_rule(ruletype, rule[1])

Sections ==
    {"match", "filter", "modify_request", "modify_response", "audit_request",
     "audit_response"}

Verbs ==
    RequestVerbNames \cup
    {"all", "none", "header", "content_type", "charset", "body",
     "cache_control", "aws_signature", "aws_sign", "frobnicate"}

\* rule texts `<verb> ...` and `permit <verb> ...`, split at the blanks
RuleWords == {<<v>> : v \in Verbs} \cup {<<"permit", v>> : v \in Verbs}

InitCompile ==
    /\ op = "compile"
    /\ args \in [ruletype : Sections, rule : RuleWords]
    /\ ret = NotCalled
    /\ InitPipelineIdle
    /\ InitLockIdle

CallCompile ==
    /\ op = "compile"
    /\ ret = NotCalled
    /\ ret' = compile_rule(args.ruletype, args.rule)
    /\ UNCHANGED <<op, args, pipevars, lockvars>>

SpecCompile == InitCompile /\ [][CallCompile]_vars

----------------------------------------------------------------------------
(* Properties of the pipeline *)

\* the stages invoked for ruleset i, in order
RECURSIVE StagesFrom(_, _)
StagesFrom(i, k) ==
    IF k > Len(calls) THEN <<>>
    ELSE IF calls[k][2] = i THEN <<calls[k][1]>> \o StagesFrom(i, k + 1)
    ELSE StagesFrom(i, k + 1)
StagesOf(i) == StagesFrom(i, 1)

PostMatchStages == {"filter", "modify_request", "proxy", "modify_response",
                    "audit_request", "audit_response"}

\* the rulesets whose post-match logic has run
PostMatchRulesets == {calls[k][2] : k \in {j \in DOMAIN calls : calls[j][1] \in PostMatchStages}}

\* what the match stage of ruleset i does with the request as it arrived
MatchOutcome(i) == test_match(rules[i]["match"], environ)
Accepts(i) == MatchOutcome(i).exc = "" /\ MatchOutcome(i).val
MatchRaises(i) == MatchOutcome(i).exc # ""

\* the least element of a set of indices, 0 when it is empty
Least(S) == IF S = {} THEN 0 ELSE CHOOSE i \in S : \A j \in S : i <= j
FirstAccepting == Least({i \in DOMAIN rules : Accepts(i)})
FirstDeciding == Least({i \in DOMAIN rules : Accepts(i) \/ MatchRaises(i)})

C2_FilterDenialShortCircuits ==
    decision = "deny" =>
        /\ response.status = 403
        /\ response.body = "Verboten\n"
        /\ \A k \in DOMAIN calls :
              calls[k][1] \notin {"modify_request", "proxy", "modify_response"}
        /\ sent = NoneSent
        /\ pc \in {"finish", "done"}

\* a request was denied by its filter and answered
C2_Witness ==
    /\ pc = "done"
    /\ decision = "deny"
    /\ StagesOf(selected) = <<"match", "filter">>

\* C3: whichever stage raises, the exception does not leave __call__, and
\* the response is 500 "Internal Server Error".
C3_ErrorsBecome500 ==
    /\ pc # "crashed"
    /\ raised # "" => (response.status = 500 /\ response.body = "Internal Server Error")

\* the last stage, modify_response, raised after the upstream had answered
C3_Witness ==
    /\ pc = "done"
    /\ raised = "modify_response"
    /\ sent # NoneSent

\* C4: the post-match logic of at most one ruleset runs.
C4_OneRulesetRuns == Cardinality(PostMatchRulesets) <= 1

\* two rulesets would both accept the request; the first one processed it
C4_Witness ==
    /\ pc = "done"
    /\ Len(rules) = 2
    /\ Accepts(1)
    /\ Accepts(2)
    /\ PostMatchRulesets = {1}
    /\ "proxy" \in {calls[k][1] : k \in DOMAIN calls}

\* C5 as stated: a permitted request passes through modify_request, the
\* upstream call and modify_response in that order, and then through the
\* ruleset's configured audit_request and audit_response, before the
\* response is returned.
C5_StagesThenAudit ==
    (/\ pc = "done"
     /\ decision = "permit"
     /\ raised = ""
     /\ {"audit_request", "audit_response"} \subseteq DOMAIN rules[selected])
    => StagesOf(selected) = <<"match", "filter", "modify_request", "proxy",
                              "modify_response", "audit_request", "audit_response">>

\* C7 as stated: a ruleset with only match and filter is valid; a request it
\* matches and permits is forwarded unmodified and the upstream response is
\* returned.
C7_MatchFilterOnlyForwards ==
    (/\ pc = "done"
     /\ decision = "permit"
     /\ DOMAIN rules[selected] = {"match", "filter"})
    => /\ <<"proxy", selected>> \in {calls[k] : k \in DOMAIN calls}
       /\ raised \in {"", "proxy"}
       /\ raised = "" => response \in UpstreamResponses

----------------------------------------------------------------------------
(* Properties of the AWS signature filter *)

\* the request fails authentication: the filter rule does not return True
AuthenticationFails == AWSSignatureFilterRule(RuleAwsSignature, environ) # Ok(TRUE)

\* C6 as stated: under `permit aws_signature`, every authentication failure
\* is a filter denial: the response is 403 and the upstream is not called.
C6_AuthFailureIs403 ==
    (pc = "done" /\ AuthenticationFails)
    => /\ response.status = 403
       /\ "proxy" \notin {calls[k][1] : k \in DOMAIN calls}

----------------------------------------------------------------------------
(* Properties of the time-lock *)

\* cancel(id) has returned
CancelCompleted(id) == \E c \in Cancels : cpc[c] = "done" /\ cid[c] = id

\* C8: grant returns false if a cancel(id) completed before its post-sleep
\* read of the TimeLock, and true if none did.
C8_GrantSeesCompletedCancel ==
    [][\A g \in Grants :
          (gpc[g] = "woken" /\ gpc'[g] = "done")
          => (gresult'[g] = "False" <=> CancelCompleted(gid[g]))]_vars

\* one grant was cancelled in time and returned false; another returned
\* true and was cancelled only after its read
C8_Witness ==
    \E g, h \in Grants :
        /\ gpc[g] = "done" /\ gresult[g] = "False"
        /\ gpc[h] = "done" /\ gresult[h] = "True" /\ CancelCompleted(gid[h])

\* C9 as stated, its second half: what grant's post-timeout read returned is
\* the final value of the flag, so the stored flag never differs from it.
C9_ReadIsFinalValue ==
    \A g \in Grants :
        gpc[g] = "done" => gresult[g] = PyNot(PyBool(store[gid[g]].cancelled))

\* C9 as amended: the cancelled flag of an id is monotonic, and grant's
\* post-timeout read returns the value the flag has at the moment of the
\* read (a cancel that saves later still sets the flag).
C9_MonotonicAndReadCurrent ==
    [][/\ \A id \in DOMAIN store :
             store[id].cancelled => (id \in DOMAIN store' /\ store'[id].cancelled)
       /\ \A g \in Grants :
             (gpc[g] = "woken" /\ gpc'[g] = "done")
             => gresult'[g] = PyNot(PyBool(store'[gid[g]].cancelled))]_vars

\* two cancels of one id have both completed, the flag is set, and grant
\* read it as cancelled
C9_Witness ==
    \E g \in Grants :
        /\ gpc[g] = "done" /\ gresult[g] = "False"
        /\ store[gid[g]].cancelled
        /\ \A c \in Cancels : cpc[c] = "done" /\ cid[c] = gid[g]

----------------------------------------------------------------------------
(* Properties of the matchers and policies *)

\* C16: AllMatcher([]) matches, AnyMatcher([]) does not, NotMatcher of a
\* NotMatcher of M matches exactly when M does, an AllMatcher matches iff
\* every child matches and an AnyMatcher iff some child matches.
C16_MatcherLaws ==
    (op = "matches" /\ ret # NotCalled) =>
        LET m == args.matcher
            holds(c) == matches(c, args.entity, args.request)
        IN  /\ m = AllMatcher(<<>>) => ret.val = TRUE
            /\ m = AnyMatcher(<<>>) => ret.val = FALSE
            /\ (m.kind = "not" /\ m.matcher.kind = "not")
                   => (ret.val <=> holds(m.matcher.matcher))
            /\ m.kind = "all"
                   => (ret.val <=> \A i \in DOMAIN m.matchers : holds(m.matchers[i]))
            /\ m.kind = "any"
                   => (ret.val <=> \E i \in DOMAIN m.matchers : holds(m.matchers[i]))

\* a double negation of an AllMatcher with two children was asked and matched
C16_Witness ==
    /\ op = "matches"
    /\ ret = Ok(TRUE)
    /\ args.matcher.kind = "not"
    /\ args.matcher.matcher.kind = "not"
    /\ args.matcher.matcher.matcher.kind = "all"
    /\ Len(args.matcher.matcher.matcher.matchers) = 2

\* the positions of the policies of the list that apply to the request
Applying == {i \in DOMAIN args.policies :
                applies_to(args.policies[i], args.entity, args.request)}

\* C11: for_request returns the first policy of the list that applies, never
\* a later one, and raises MissingPolicyException when none applies.
C11_FirstApplicablePolicy ==
    (op = "for_request" /\ ret # NotCalled) =>
        IF Applying = {}
        THEN ret = Raise("MissingPolicyException")
        ELSE /\ ret.exc = ""
             /\ ret.val = args.policies[Least(Applying)]
             /\ ret.val.id = Least(Applying)

\* of two policies the first does not apply and the second does: the second
\* was returned
C11_Witness ==
    /\ op = "for_request"
    /\ ret.exc = ""
    /\ Len(args.policies) = 2
    /\ Applying = {2}
    /\ ret.val.id = 2

----------------------------------------------------------------------------
(* Properties of the timestamp validation *)

\* the age limit in force for the call
Threshold == IF args.impl = "rules" THEN args.max_signature_age ELSE TIMESTAMP_THRESHOLD

\* C13 as stated: a Timestamp t is accepted exactly when
\* now - threshold <= t <= now.
C13_WindowExactly ==
    (op = "validate_timestamp" /\ ret # NotCalled /\ args.Timestamp.iso) =>
        (ret.exc = "" <=> (/\ Now - Threshold <= args.Timestamp.secs
                           /\ args.Timestamp.secs <= Now))

\* C13 as amended: a Timestamp t is accepted exactly when t <= now and
\* now - threshold <= t, where the filter rule's max_signature_age of 0 sets
\* no lower limit, and where the filter rule also rejects a request whose
\* Expires parameter is unparseable or in the past; with the default
\* threshold of 300 and no Expires, now and now - 300 are accepted, now + 1
\* and now - 301 are rejected.
C13_WindowUnlessDisabledOrExpired ==
    (op = "validate_timestamp" /\ ret # NotCalled /\ args.Timestamp.iso) =>
        LET t == args.Timestamp.secs
            expiresOk == \/ ~args.Expires.has
                         \/ args.Expires.v.iso /\ args.Expires.v.secs >= Now
        IN  IF args.impl = "rules"
            THEN ret.exc = "" <=> /\ t <= Now
                                  /\ args.max_signature_age = 0
                                       \/ Now - args.max_signature_age <= t
                                  /\ expiresOk
            ELSE ret.exc = "" <=> (Now - TIMESTAMP_THRESHOLD <= t /\ t <= Now)

\* the filter rule accepted a Timestamp at the oldest instant of the default
\* window
C13_Witness ==
    /\ op = "validate_timestamp"
    /\ args.impl = "rules"
    /\ args.max_signature_age = MaxSignatureAge
    /\ args.Timestamp = Iso(Now - MaxSignatureAge)
    /\ ret = Ok(TRUE)

----------------------------------------------------------------------------
(* Properties of the filter stage *)

\* what rule i of the stage answers for the request
Predicate(i) == CallMatchRule(args.compiled[i].rule, args.request)
\* the first rule that decides or raises, 0 when there is none
FirstDecision ==
    Least({i \in DOMAIN args.compiled :
              Predicate(i).exc # "" \/ args.compiled[i].text0 \in {"permit", "reject"}})
\* the stage with the action of rule i turned from permit to reject or back
Opposite(i) ==
    [args.compiled EXCEPT ![i].text0 = IF @ = "permit" THEN "reject" ELSE "permit"]

\* C14: test_filter returns the decision of the first rule that produces
\* one, whatever the later rules are: the predicate itself for permit, its
\* negation for reject, so that reject P denies exactly what permit P admits.
C14_FirstRuleDecides ==
    (op = "test_filter" /\ ret # NotCalled /\ args.compiled # <<>>) =>
        LET d == FirstDecision
        IN  IF d = 0 THEN ret = Ok("None")
            ELSE IF Predicate(d).exc # "" THEN ret = Predicate(d)
            ELSE /\ ret.exc = ""
                 /\ args.compiled[d].text0 = "permit" => ret.val = PyBool(Predicate(d).val)
                 /\ args.compiled[d].text0 = "reject" => ret.val = PyBool(~Predicate(d).val)
                 /\ test_filter(Opposite(d), args.request) = Ok(PyNot(ret.val))

\* `reject header User-Agent regex ^curl` denied a request from curl, and
\* the rule after it, which would have raised, was not evaluated
C14_Witness ==
    /\ op = "test_filter"
    /\ ret = Ok("False")
    /\ Len(args.compiled) = 2
    /\ args.compiled[1] = Compiled("reject", RuleUserAgentCurl)
    /\ Predicate(2).exc # ""

----------------------------------------------------------------------------
(* Properties of the url and method overlay *)

\* the rules of the stage that set the url, or the method
SetsOf(verb) == {i \in DOMAIN args.ruleset : OverlayRule(args.ruleset[i]).verb = verb}
\* the value the last of them sets
LastSet(verb) ==
    OverlayRule(args.ruleset[CHOOSE i \in SetsOf(verb) : \A j \in SetsOf(verb) : j <= i]).value

\* C15 as stated: `url set` and `method set` leave the request's own url and
\* method as they are and write the overlay only; proxy_request then sends
\* the overlay value where one is set and the request's own otherwise, for
\* url and method independently.
C15_OverlayElseOriginal ==
    /\ op = "proxy_request" =>
          /\ ret.exc = ""
          /\ [ret.val EXCEPT !.adhoc = args.request.adhoc] = args.request
          /\ DOMAIN ret.val.adhoc.attrs =
                (IF SetsOf("url") = {} THEN {} ELSE {"goldengate_url"})
                \cup (IF SetsOf("method") = {} THEN {} ELSE {"goldengate_method"})
    /\ op = "proxied" =>
          /\ ret.exc = ""
          /\ ret.val.target.url =
                IF SetsOf("url") = {} THEN args.request.url ELSE LastSet("url")
          /\ ret.val.target.method =
                IF SetsOf("method") = {} THEN args.request.method ELSE LastSet("method")

----------------------------------------------------------------------------
(* C17: the host line of the base string *)

DefaultPort(scheme, port) ==
    \/ scheme = "http" /\ port = "80"
    \/ scheme = "https" /\ port = "443"

HostLine(scheme, name, port) ==
    Netloc(Lower(name), IF DefaultPort(scheme, port) THEN "" ELSE port)

\* C17: in the base string of the signer and of the verifier the host line is
\* the lower-cased host, without its port when that is 80 under http or 443
\* under https and with any other port kept, so that a request and the same
\* request without its default port have one signature.
C17_DefaultPortDropped ==
    (op = "build_signature" /\ ret # NotCalled) =>
        /\ ret.exc = ""
        /\ ret.val.base.host = HostLine(args.scheme, args.name, args.port)
        /\ DefaultPort(args.scheme, args.port) =>
              ret.val.signature = SignatureOf([args EXCEPT !.port = ""]).val.signature

----------------------------------------------------------------------------
(* C12: a signed request verifies, a tampered one does not *)

\* C12: signing any request with a key and its secret gives a request that
\* signature verification with that secret accepts, and changing the value
\* of one parameter other than Signature in the signed request makes the
\* verification fail.
C12_SignatureRoundTrip ==
    /\ op = "signed" => ret.exc = ""
    /\ op = "verified" =>
          /\ ret.exc = ""
          /\ ret.val = IF args.impl = "rules" THEN TRUE ELSE Creds[2].name
    /\ op = "tampered" =>
          IF args.impl = "rules" THEN ret.exc # "" \/ ret.val = FALSE
          ELSE ret.exc = "UnauthenticatedException"

----------------------------------------------------------------------------
(* C18: cancel of a missing and of an existing id *)

\* C18: cancel(id) on an id that the store does not hold fails with an error
\* and leaves the store as it is; on an id the store holds it sets the
\* cancelled flag of that record, creates no record and changes no other.
C18_CancelMissingFails ==
    [][\A c \in Cancels :
          /\ (cpc[c] = "idle" /\ cpc'[c] # "idle") =>
                /\ store' = store
                /\ cpc'[c] = IF cid'[c] \in DOMAIN store THEN "got" ELSE "failed"
          /\ cpc[c] = "failed" => cpc'[c] = "failed"
          /\ (cpc[c] # "done" /\ cpc'[c] = "done") =>
                /\ cid[c] \in DOMAIN store
                /\ DOMAIN store' = DOMAIN store
                /\ store'[cid[c]].cancelled
                /\ \A id \in DOMAIN store \ {cid[c]} : store'[id] = store[id]]_vars

\* one cancel failed on an id that no record has, another has cancelled the
\* record of a grant
C18_Witness ==
    \E c, d \in Cancels :
        /\ cpc[c] = "failed" /\ cid[c] \notin DOMAIN store
        /\ cpc[d] = "done" /\ store[cid[d]].cancelled

----------------------------------------------------------------------------
(* C19: the registry of the audit stages *)

\* the verbs that a modify rule registers
ModifyVerbs ==
    UNION {Registrations[i].verbs :
              i \in {j \in DOMAIN Registrations : Registrations[j].ruletype = "modify"}}

\* C19: compiling a rule in audit_request or audit_response resolves its
\* verb as compiling it in the modify stages does; with a verb that a modify
\* rule registers it succeeds and yields that modify rule.
C19_AuditSharesModifyRegistry ==
    (op = "compile" /\ ret # NotCalled
        /\ args.ruletype \in {"audit_request", "audit_response"}) =>
        /\ ret = compile_rule("modify_request", args.rule)
        /\ args.rule[1] \in ModifyVerbs => ret.exc = ""

----------------------------------------------------------------------------
(* C20: what changes the request *)

\* C20 as stated: the match stage, the filter stage and the proxy step leave
\* every attribute of the request as it is.
C20_OnlyModifyRequestChanges ==
    [][(pc \in {"match", "filter", "proxy"}) => (request' = request)]_vars

\* C20 as amended: the match stage and the filter stage leave the request as
\* it is, and so does everything after the proxy step; the proxy step leaves
\* method, url, body and the overlay slots, and in the headers it removes an
\* empty Content-Type, sets Content-Length to the length of the body and
\* Connection to close, and nothing else.
C20_ProxyChangesTheseHeadersOnly ==
    [][/\ (pc \in {"match", "filter", "modify_response", "finish"}) => (request' = request)
       /\ pc = "proxy" =>
             /\ [request' EXCEPT !.headers = request.headers] = request
             /\ IF "Content-Type" \notin DOMAIN request.headers
                THEN request'.headers = request.headers
                ELSE /\ DOMAIN request'.headers =
                           ((DOMAIN request.headers) \cup {"Content-Length", "Connection"})
                           \ (IF request.headers["Content-Type"] = ""
                              THEN {"Content-Type"} ELSE {})
                     /\ \A k \in DOMAIN request'.headers :
                           request'.headers[k] =
                              CASE k = "Content-Length" -> ToString(Len(request.body))
                                [] k = "Connection" -> "close"
                                [] OTHER -> (request.headers[k])]_vars

\* the proxy step has sent a request whose modify_request stage is empty, and
\* the request no longer has the headers it came with
C20_Witness ==
    /\ pc = "modify_response"
    /\ rules[idx]["modify_request"] = <<>>
    /\ request.headers # environ.headers
    /\ request.headers["Connection"] = "close"
    /\ [request EXCEPT !.headers = environ.headers] = environ

----------------------------------------------------------------------------
(* C21: where aws_sign writes the signed parameters *)

\* the parameters aws_sign adds before it signs
SignerParams == {"AWSAccessKeyId", "SignatureVersion", "SignatureMethod", "Timestamp"}

\* the URL the rule starts from
SignUrl(r) == IF r.overlay.has THEN r.overlay.v ELSE request_url(r)

\* C21: whatever request the aws_sign rule is given, with or without a query
\* string in its URL, the request has no Authorization header afterwards; a
\* form request has the signed parameters and Signature in its body and its
\* overlay URL as before, any other request has them as the query of its
\* overlay URL and its body as before.
C21_SignWritesBodyOrUrl ==
    (op = "signed" /\ args.impl = "rules") =>
        /\ ret.exc = ""
        /\ "Authorization" \notin DOMAIN ret.val.headers
        /\ IF args.content_type = FormContentType
           THEN /\ ret.val.overlay = args.overlay
                /\ SignerParams \cup {"Signature"} \subseteq DOMAIN ret.val.body
           ELSE /\ ret.val.body = args.body
                /\ ret.val.overlay.has
                /\ ret.val.overlay.v.query.has
                /\ SignerParams \cup {"Signature"}
                      \subseteq DOMAIN ret.val.overlay.v.query.params
                /\ [ret.val.overlay.v EXCEPT !.query = NoQuery]
                      = [SignUrl(SignRequest(args)) EXCEPT !.query = NoQuery]

----------------------------------------------------------------------------
(* C22: a filter stage that decides nothing *)

\* the filter stage of the selected ruleset has no rule whose first word is
\* permit or reject
NoDecidingRule ==
    /\ selected # 0
    /\ \A i \in DOMAIN rules[selected]["filter"] :
          rules[selected]["filter"][i].text0 \notin {"permit", "reject"}

\* one of the rules of that filter stage raises on the request
FilterRuleRaises ==
    \E i \in DOMAIN rules[selected]["filter"] :
        CallMatchRule(rules[selected]["filter"][i].rule, environ).exc # ""

NeverProxied ==
    /\ sent = NoneSent
    /\ \A k \in DOMAIN calls :
          calls[k][1] \notin {"modify_request", "proxy", "modify_response"}

\* C22 as stated: a ruleset whose filter stage is empty, or has only rules
\* that are neither permit nor reject, answers 403 to every request it
\* matches and never proxies it.
C22_NoDecisionIs403 ==
    (pc = "done" /\ NoDecidingRule) => (response = Response403 /\ NeverProxied)

\* C22 as amended: such a ruleset never proxies a request it matches; it
\* answers 403, unless one of its filter rules raises while it is evaluated,
\* and then 500.
C22_NoDecisionNeverProxies ==
    (pc = "done" /\ NoDecidingRule) =>
        /\ NeverProxied
        /\ response = IF FilterRuleRaises THEN Response500 ELSE Response403
        /\ ~FilterRuleRaises => decision = "deny"

\* a request was matched by a ruleset whose only filter rule is `allow all`,
\* the rule was called, and the answer is 403
C22_Witness ==
    /\ pc = "done"
    /\ NoDecidingRule
    /\ rules[selected]["filter"] # <<>>
    /\ <<"filter", selected>> \in {calls[k] : k \in DOMAIN calls}
    /\ response = Response403

----------------------------------------------------------------------------
(* C23: a match stage that raises *)

\* C23: when the match stage of a ruleset raises, the answer is 500 and the
\* request is finished with: that ruleset is the last one tested, nothing but
\* match stages has run, and no ruleset is selected, whatever the rulesets
\* after it would have done.
C23_MatchErrorStops ==
    raised = "match" =>
        /\ response = Response500
        /\ pc \in {"finish", "done"}
        /\ selected = 0
        /\ calls # <<>>
        /\ MatchRaises(calls[Len(calls)][2])
        /\ \A k \in DOMAIN calls :
              /\ calls[k][1] = "match"
              /\ calls[k][2] <= calls[Len(calls)][2]
              /\ k < Len(calls) => calls[k][2] < calls[Len(calls)][2]

\* the match stage of the first ruleset raised, the request was answered 500,
\* and the second ruleset, which matches every request, was never tested
C23_Witness ==
    /\ pc = "done"
    /\ raised = "match"
    /\ response.status = 500
    /\ \E i \in DOMAIN rules : i > calls[Len(calls)][2] /\ Accepts(i)

----------------------------------------------------------------------------
(* C24: one time-lock does not touch another *)

\* C24: the grants that are under way hold records with pairwise distinct
\* ids; a step of cancel(id) changes no record but that of id; and a grant
\* returns false only when its own id was cancelled, however many other
\* grants were cancelled while it was pending.
C24_TimeLockIsolation ==
    [][/\ \A g, h \in Grants :
             (g # h /\ gpc'[g] # "idle" /\ gpc'[h] # "idle") => (gid'[g] # gid'[h])
       /\ \A c \in Cancels :
             (cpc'[c] # cpc[c]) =>
                \A id \in DOMAIN store \ {cid'[c]} :
                    id \in DOMAIN store' /\ store'[id] = store[id]
       /\ \A g \in Grants :
             (gpc[g] = "woken" /\ gpc'[g] = "done") =>
                /\ gresult'[g] = PyNot(PyBool(store[gid[g]].cancelled))
                /\ store[gid[g]].cancelled =>
                      (\E c \in Cancels : cid[c] = gid[g] /\ cpc[c] = "done")]_vars

\* two grants have returned: one was cancelled by every cancel there was and
\* returned false, the other returned true
C24_Witness ==
    \E g, h \in Grants :
        /\ gpc[g] = "done" /\ gresult[g] = "True" /\ ~store[gid[g]].cancelled
        /\ gpc[h] = "done" /\ gresult[h] = "False"
        /\ \A c \in Cancels : cpc[c] = "done" /\ cid[c] = gid[h]

====
